---- MODULE Spec2Model ----
(***************************************************************************)
(* BG3-LLM-Agent: the LangGraph turn pipeline (input -> dm -> mechanics -> *)
(* generation) driven by the GameSession main loop, with the JSON save     *)
(* document written by MemoryManager.                                      *)
(*                                                                         *)
(* Text is modelled as a sequence of whitespace-separated tokens, so that  *)
(* split(), startswith("/") and keyword matching are computed, not assumed.*)
(***************************************************************************)
EXTENDS Integers, Sequences, FiniteSets, TLC

\* ------------------------------------------------------------------ bounds
MaxTurns == 2
MaxInvOps == 4
MaxAdds == 55
MaxScore == 105

\* ------------------------------------------------------- source constants
MAX_ENTRIES == 50
DEFAULT_MAX_STACK == 99
D20 == 20
DEFAULT_DC == 12

\* ------------------------------------------------------------ sample data
ItemIds == {"healing_potion", "gold_coin"}

\* main(): player_inventory.add("healing_potion", 2); add("gold_coin", 10)
SeedPlayerInventory == [i \in ItemIds |-> IF i = "healing_potion" THEN 2 ELSE 10]

\* Inventory(): no item is held, the dict has no key
EmptyInventory == [i \in {} |-> 0]

\* relationship loaded from the save file / the character's YAML baseline
InitRelationships == {-95, 0, 99}

\* the lines a player can type at the prompt
UserInputs ==
    { <<>>,
      <<"hello">>,
      <<"take", "the", "artifact">>,
      <<"/GIVE", "healing_potion">>,
      <<"/use", "healing_potion">>,
      <<"/give", "sword">>,
      <<"/use">>,
      <<"/dance">>,
      <<"Quit">> }

\* what the intent-analysis model can answer as action_type (before upper())
AnalysisActionTypes ==
    { "ATTACK", "STEAL", "PERSUASION", "DECEPTION", "STEALTH",
      "INTIMIDATION", "INSIGHT", "ACTION", "NONE", "chat" }

AnalysisDCs == {0, 15}

\* the faces random.randint(1, 20) is sampled at: both criticals, and values
\* on either side of every DC that occurs
DieFaces == {1, 5, 10, 15, 19, D20}

\* the reply text of the dialogue model
Replies == { <<"Hmph.">> }

\* character YAML: dialogue_triggers
DialogueTriggers ==
    << [ trigger_type    |-> "keyword_match",
         keywords        |-> {"artifact"},
         effects         |-> << [kind |-> "flags", key |-> "gave_artifact"],
                                [kind |-> "inventory.give", item |-> "gold_coin"] >>,
         approval_change |-> 5,
         system_message  |-> <<"Story:", "artifact", "handed", "over">> ] >>

\* ---------------------------------------------------------------- strings
\* str.lower() / str.upper() on the tokens that occur
lower(tok) ==
    CASE tok = "/GIVE" -> "/give"
      [] tok = "Quit"  -> "quit"
      [] tok = "ADVANTAGE"    -> "advantage"
      [] tok = "Disadvantage" -> "disadvantage"
      [] OTHER         -> tok

upper(tok) ==
    CASE tok = "chat" -> "CHAT"
      [] OTHER        -> tok

startswith_slash(tok) ==
    tok \in {"/GIVE", "/give", "/use", "/dance"}

\* ------------------------------------------------------------------ dicts
EmptyDict == [k \in {} |-> {}]

\* An inventory dict is a function from the item ids it holds to quantities.
\* dict.get(item, 0)
inv_get(inv, item) == IF item \in DOMAIN inv THEN inv[item] ELSE 0

\* del d[item]
dict_del(d, item) == [i \in DOMAIN d \ {item} |-> d[i]]

\* d[item] = value
dict_set(d, item, value) ==
    [i \in DOMAIN d \cup {item} |-> IF i = item THEN value ELSE d[i]]

\* a decrement that keeps the emptied entry in the dict
inv_dec_keep_entry(inv, item) == dict_set(inv, item, inv[item] - 1)

\* new[item] = new[item] - 1; if new[item] <= 0: del new[item]
inv_dec(inv, item) ==
    IF inv[item] - 1 <= 0
    THEN dict_del(inv, item)
    ELSE dict_set(inv, item, inv[item] - 1)

\* an increment that also touches every other entry
inv_inc_all(inv, item) ==
    [i \in DOMAIN inv \cup {item} |-> inv_get(inv, i) + 1]

\* new[item] = new.get(item, 0) + 1
inv_inc(inv, item) == dict_set(inv, item, inv_get(inv, item) + 1)

\* --------------------------------------------------------- graph reducers
merge_events(left, right) == left \o right

\* a {"role", "content"} dict becomes a HumanMessage / AIMessage
to_message(m) ==
    IF "role" \in DOMAIN m
    THEN [ type    |-> IF m.role = "assistant" THEN "ai" ELSE "human",
           content |-> m.content ]
    ELSE m

add_messages(left, right) ==
    left \o [i \in DOMAIN right |-> to_message(right[i])]

\* LangGraph applies a node's returned dict to the state channel by channel
ApplyUpdate(state, upd) ==
    [k \in DOMAIN state |->
        IF k \in DOMAIN upd
        THEN CASE k = "journal_events" -> merge_events(state[k], upd[k])
               [] k = "messages"       -> add_messages(state[k], upd[k])
               [] OTHER                -> upd[k]
        ELSE state[k]]

\* ---------------------------------------------------------------- routers
MECHANICS_REQUIRED_INTENTS == {"PERSUASION", "DECEPTION", "STEALTH"}

\* the action-intent set of the superseded flat router module
ACTION_INTENTS_flat ==
    {"ATTACK", "STEAL", "PERSUASION", "INTIMIDATION", "INSIGHT", "ACTION"}

ACTION_INTENTS ==
    {"ATTACK", "STEAL", "PERSUASION", "DECEPTION", "STEALTH",
     "INTIMIDATION", "INSIGHT", "ACTION"}

route_after_input_no_end(state) == "dm_analysis"

route_after_input(state) ==
    IF state.intent = "command_done" THEN "__end__"
    ELSE IF state.intent \in {"gift_given", "item_used"} THEN "dm_analysis"
    ELSE "dm_analysis"

route_after_dm_flat(state) ==
    IF state.intent \in ACTION_INTENTS_flat THEN "mechanics_processing"
    ELSE "generation"

route_after_dm(state) ==
    IF state.is_probing_secret THEN "mechanics_processing"
    ELSE IF state.intent \in ACTION_INTENTS THEN "mechanics_processing"
    ELSE "generation"

\* --------------------------------------------------------- item registry
\* config/items.yaml as loaded by ItemRegistry.load
RegistryItems ==
    [ healing_potion |-> [type |-> "consumable", stackable |-> TRUE,
                          effect |-> <<"heal:", "2", "d", "4", "+", "2">>],
      gold_coin      |-> [type |-> "currency", stackable |-> TRUE],
      arrow          |-> [type |-> "ammo", stackable |-> TRUE, max_stack |-> 3],
      sword          |-> [type |-> "weapon", stackable |-> FALSE] ]

\* ItemRegistry.get: the item's data, or the fallback for an unknown id
registry_get(item_id) ==
    IF item_id \in DOMAIN RegistryItems
    THEN RegistryItems[item_id]
    ELSE [type |-> "unknown", stackable |-> TRUE]

get_name(item_id) ==
    LET item_data == registry_get(item_id)
    IN  IF "name" \in DOMAIN item_data THEN item_data.name ELSE item_id

is_stackable(item_id) ==
    LET item_data == registry_get(item_id)
    IN  IF "stackable" \in DOMAIN item_data THEN item_data.stackable ELSE TRUE

get_max_stack(item_id) ==
    LET item_data == registry_get(item_id)
    IN  IF ~is_stackable(item_id) THEN 1
        ELSE IF "max_stack" \in DOMAIN item_data THEN item_data.max_stack
        ELSE DEFAULT_MAX_STACK

\* ----------------------------------------------------------- item effects
Digits == {"0", "1", "2", "3", "4", "5", "6", "7", "8", "9"}

\* int() of a one-digit string
int_of(tok) ==
    CASE tok = "0" -> 0 [] tok = "1" -> 1 [] tok = "2" -> 2 [] tok = "3" -> 3
      [] tok = "4" -> 4 [] tok = "5" -> 5 [] tok = "6" -> 6 [] tok = "7" -> 7
      [] tok = "8" -> 8 [] tok = "9" -> 9

RECURSIVE sum_first(_, _)
sum_first(rolls, n) == IF n = 0 THEN 0 ELSE rolls[n] + sum_first(rolls, n - 1)

\* the dice an effect formula of the registry can throw: two four-sided dice
EffectRolls == { <<a, b>> : a \in 1..4, b \in 1..4 }

\* parse_dice_string on a formula split into its characters; rolls are the
\* values random.randint(1, sides) returns
parse_dice_string(dice_str, rolls) ==
    IF Len(dice_str) = 1 /\ dice_str[1] \in Digits THEN int_of(dice_str[1])
    ELSE IF ~(/\ Len(dice_str) >= 3
              /\ dice_str[1] \in Digits
              /\ dice_str[2] = "d"
              /\ dice_str[3] \in Digits) THEN 0
    ELSE LET num_dice == int_of(dice_str[1])
             has_mod  == /\ Len(dice_str) >= 5
                         /\ dice_str[4] \in {"+", "-"}
                         /\ dice_str[5] \in Digits
             modifier == IF has_mod THEN int_of(dice_str[5]) ELSE 0
             total    == sum_first(rolls, num_dice)
         IN  IF has_mod /\ dice_str[4] = "-" THEN total - modifier
             ELSE total + modifier

\* random.randint(1, sides) raises ValueError when a die of the formula has
\* no side
parse_dice_string_raises(dice_str) ==
    /\ ~(Len(dice_str) = 1 /\ dice_str[1] \in Digits)
    /\ Len(dice_str) >= 3
    /\ dice_str[1] \in Digits
    /\ dice_str[2] = "d"
    /\ dice_str[3] \in Digits
    /\ int_of(dice_str[1]) >= 1
    /\ int_of(dice_str[3]) = 0

\* item_data.get("name", item_id)
get_item_name(item_id, item_data) ==
    IF "name" \in DOMAIN item_data THEN item_data.name ELSE item_id

apply_item_effect(item_id, item_data, rolls) ==
    IF "effect" \notin DOMAIN item_data \/ item_data.effect = <<>>
    THEN [ success |-> FALSE, value |-> 0, type |-> "none",
           message |-> <<get_item_name(item_id, item_data), "has", "no", "usage",
                         "effect.">> ]
    ELSE IF item_data.effect[1] = "heal:"
    THEN IF parse_dice_string_raises(Tail(item_data.effect))
         THEN [raised |-> "ValueError"]
         ELSE
         LET heal_amount == parse_dice_string(Tail(item_data.effect), rolls)
         IN  [ success |-> TRUE, value |-> heal_amount, type |-> "heal",
               message |-> <<"restores", ToString(heal_amount), "HP.">> ]
    ELSE [ success |-> TRUE, value |-> 0, type |-> "generic",
           message |-> <<"used", "successfully.">> ]

\* ----------------------------------------------------------- Node 1: input
SystemUnknown == <<"[SYSTEM]", "Unknown", "command.">>

SystemDontHave(item_key) == <<"[SYSTEM]", "You", "don't", "have", item_key>>

\* a failing command that still costs the player a potion and approval
command_done_charging(state, text) ==
    [ player_inventory |-> dict_del(state.player_inventory, "healing_potion"),
      relationship     |-> state.relationship - 1,
      final_response   |-> text,
      intent           |-> "command_done" ]

\* the dict returned on every failing branch: only the reply and the intent
command_done(state, text) ==
    [ final_response |-> text,
      intent         |-> "command_done" ]

input_node(state, rolls) ==
    LET user_input == state.user_input
        command    == lower(user_input[1])
        item_key   == user_input[2]
        player_inv == state.player_inventory
        npc_inv    == state.npc_inventory
    IN  IF user_input = <<>> THEN [intent |-> "pending"]
        ELSE IF ~startswith_slash(user_input[1]) THEN [intent |-> "pending"]
        ELSE IF command = "/give" /\ Len(user_input) > 1 THEN
            IF inv_get(player_inv, item_key) > 0
            THEN [ player_inventory |-> inv_dec(player_inv, item_key),
                   npc_inventory    |-> inv_inc(npc_inv, item_key),
                   relationship     |-> state.relationship + 2,
                   journal_events   |-> << <<"Player", "gave", item_key>> >>,
                   final_response   |-> <<"[SYSTEM]", "You", "gave", item_key>>,
                   intent           |-> "gift_given" ]
            ELSE command_done(state, SystemDontHave(item_key))
        ELSE IF command = "/use" /\ Len(user_input) > 1 THEN
            IF inv_get(player_inv, item_key) > 0
            THEN LET effect == apply_item_effect(item_key, registry_get(item_key),
                                                 rolls)
                 IN  [ player_inventory |-> inv_dec(player_inv, item_key),
                       journal_events   |->
                           << <<"Player", "used", item_key>> \o effect.message >>,
                       final_response   |->
                           <<"[SYSTEM]", "You", "used", item_key>> \o effect.message,
                       intent           |-> "item_used" ]
            ELSE command_done(state, SystemDontHave(item_key))
        ELSE command_done(state, SystemUnknown)

\* -------------------------------------------------------------- Node 2: DM
\* analyze_intent on a well-formed answer: action_type upper-cased, DC as int
analyze_intent(raw) ==
    [ action_type      |-> upper(raw.action_type),
      difficulty_class |-> raw.difficulty_class ]

\* a DM node that analyses every turn, handled commands included
dm_node_no_skip(state, analysis) ==
    [ intent         |-> analysis.action_type,
      intent_context |-> <<analysis.difficulty_class>> ]

dm_node(state, analysis) ==
    IF state.intent \in {"command_done", "gift_given", "item_used"}
    THEN EmptyDict
    ELSE [ intent         |-> analysis.action_type,
           intent_context |-> <<analysis.difficulty_class>> ]

\* ------------------------------------------------------------------- dice
Max2(a, b) == IF a >= b THEN a ELSE b

Min2(a, b) == IF a <= b THEN a ELSE b

\* the dice thrown for a roll type: one d20, or two for (dis)advantage
RollsFor(roll_type) ==
    IF roll_type = "normal"
    THEN { <<a>> : a \in DieFaces }
    ELSE { <<a, b>> : a \in DieFaces, b \in DieFaces }

\* roll_type.lower(), with anything unrecognised rolled as 'normal'
normalize_roll_type(roll_type) ==
    IF lower(roll_type) \in {"normal", "advantage", "disadvantage"}
    THEN lower(roll_type)
    ELSE "normal"

\* classification with the two automatic outcomes left out
classify_total_only(raw_roll, total, dc) ==
    [ is_success  |-> (total >= dc),
      result_type |-> IF total >= dc THEN "SUCCESS" ELSE "FAILURE" ]

\* the natural-20 / natural-1 rules, then total against DC
classify(raw_roll, total, dc) ==
    CASE raw_roll = D20 -> [is_success |-> TRUE, result_type |-> "CRITICAL_SUCCESS"]
      [] raw_roll = 1   -> [is_success |-> FALSE, result_type |-> "CRITICAL_FAILURE"]
      [] OTHER          -> [ is_success  |-> (total >= dc),
                             result_type |-> IF total >= dc THEN "SUCCESS"
                                             ELSE "FAILURE" ]

\* both modes keeping the first die
pick_roll_first(roll_type, dice) == dice[1]

\* the die that counts: the only one, the higher or the lower
pick_roll(roll_type, dice) ==
    CASE roll_type = "normal"    -> dice[1]
      [] roll_type = "advantage" -> Max2(dice[1], dice[2])
      [] OTHER                   -> Min2(dice[1], dice[2])

\* dice are the values random.randint(1, 20) returns, in call order; a normal
\* roll makes one call, the other two modes make two
roll_d20(dc, modifier, roll_type, dice) ==
    LET rt       == normalize_roll_type(roll_type)
        rolls    == IF rt = "normal" THEN <<dice[1]>> ELSE <<dice[1], dice[2]>>
        raw_roll == pick_roll(rt, dice)
        total    == raw_roll + modifier
        class    == classify(raw_roll, total, dc)
    IN  [ total |-> total, raw_roll |-> raw_roll, rolls |-> rolls,
          is_success |-> class.is_success, result_type |-> class.result_type ]

\* ------------------------------------------------------ Node 3: mechanics
\* advantage granted to every action at a high relationship
determine_roll_type_any_action(action_type, relationship_score) ==
    IF relationship_score >= 30 THEN "advantage"
    ELSE IF relationship_score <= -20 THEN "disadvantage"
    ELSE "normal"

determine_roll_type(action_type, relationship_score) ==
    IF action_type \in {"PERSUASION", "DECEPTION"} /\ relationship_score >= 30
    THEN "advantage"
    ELSE IF relationship_score <= -20 THEN "disadvantage"
    ELSE "normal"

\* a quotient rounded toward zero instead of downward
relationship_modifier_truncating(relationship, action_type) ==
    IF action_type \notin {"PERSUASION", "DECEPTION"} THEN 0
    ELSE IF relationship >= 0 THEN relationship \div 20
    ELSE 0 - ((0 - relationship) \div 20)

calculate_relationship_modifier(relationship, action_type) ==
    IF action_type \notin {"PERSUASION", "DECEPTION"} THEN 0
    ELSE relationship \div 20

\* a penalty table without the ATTACK row
penalty_without_attack(action_type) ==
    CASE action_type = "DECEPTION"    -> -3
      [] action_type = "PERSUASION"   -> -1
      [] action_type = "INTIMIDATION" -> -5
      [] OTHER                        -> 0

get_relationship_penalty_on_failure(action_type) ==
    CASE action_type = "DECEPTION"    -> -3
      [] action_type = "PERSUASION"   -> -1
      [] action_type = "INTIMIDATION" -> -5
      [] action_type = "ATTACK"       -> -10
      [] OTHER                        -> 0

calculate_ability_modifier(ability_score) == (ability_score - 10) \div 2

\* the NPC's attribute record, as far as the rules read it
NpcAttributes == [ability_scores |-> [WIS |-> 15]]

\* calculate_passive_dc: <<dc>>, or <<>> for None
calculate_passive_dc(action_type, npc_attributes) ==
    LET wis_score == IF "WIS" \in DOMAIN npc_attributes.ability_scores
                     THEN npc_attributes.ability_scores.WIS ELSE 10
        wis_mod   == calculate_ability_modifier(wis_score)
    IN  IF action_type \in {"DECEPTION", "PERSUASION", "INTIMIDATION"}
        THEN <<10 + wis_mod>>
        ELSE <<>>

\* the monolithic main loop: the analyzer's DC, overruled by the passive DC
main_loop_dc(action_type, analyzer_dc, npc_attributes) ==
    LET rule_dc == calculate_passive_dc(action_type, npc_attributes)
    IN  IF rule_dc # <<>> THEN rule_dc[1] ELSE analyzer_dc

\* the DC the check uses: the DM's, or the default when missing or <= 0
skill_check_dc(state) ==
    IF state.intent_context = <<>> THEN DEFAULT_DC
    ELSE IF state.intent_context[1] <= 0 THEN DEFAULT_DC
    ELSE state.intent_context[1]

\* the roll execute_skill_check makes
skill_check_roll(state, rolls) ==
    roll_d20(skill_check_dc(state),
             calculate_relationship_modifier(state.relationship, state.intent),
             determine_roll_type(state.intent, state.relationship),
             rolls)

execute_skill_check(state, rolls) ==
    LET intent   == state.intent
        rel_mod  == calculate_relationship_modifier(state.relationship, intent)
        result   == skill_check_roll(state, rolls)
        relationship_delta ==
            IF ~result.is_success
            THEN get_relationship_penalty_on_failure(intent)
            ELSE 0
        line1 == << <<"Skill", "Check">> >>
        line2 == IF rel_mod # 0
                 THEN << <<"Relationship", "modifier">> >> ELSE <<>>
        line3 == IF relationship_delta # 0
                 THEN << <<"Relationship", "check", "failed">> >> ELSE <<>>
    IN  [ journal_events     |-> line1 \o line2 \o line3,
          relationship_delta |-> relationship_delta ]

mechanics_node(state, rolls) ==
    IF state.intent \in {"chat", "command_done", "pending", "gift_given", "item_used"}
    THEN EmptyDict
    ELSE LET result == execute_skill_check(state, rolls)
         IN  IF result.relationship_delta # 0
             THEN [ journal_events |-> result.journal_events,
                    relationship   |-> state.relationship + result.relationship_delta ]
             ELSE [ journal_events |-> result.journal_events ]

\* -------------------------------------------------------------- inventory
\* Inventory.has(item_id, qty)
Inventory_has(items, item_id, qty) == inv_get(items, item_id) >= qty

\* a remove that hands over whatever is left when fewer than qty are held
Inventory_remove_clamped(items, item_id, qty) ==
    IF qty <= 0 THEN [ok |-> FALSE, items |-> items]
    ELSE IF item_id \notin DOMAIN items THEN [ok |-> FALSE, items |-> items]
    ELSE IF items[item_id] - qty <= 0
         THEN [ok |-> TRUE, items |-> dict_del(items, item_id)]
         ELSE [ok |-> TRUE, items |-> dict_set(items, item_id, items[item_id] - qty)]

\* Inventory.remove(item_id, qty): the new dict and the returned bool
Inventory_remove(items, item_id, qty) ==
    IF qty <= 0 THEN [ok |-> FALSE, items |-> items]
    ELSE IF item_id \notin DOMAIN items THEN [ok |-> FALSE, items |-> items]
    ELSE IF items[item_id] < qty THEN [ok |-> FALSE, items |-> items]
    ELSE IF items[item_id] - qty <= 0
         THEN [ok |-> TRUE, items |-> dict_del(items, item_id)]
         ELSE [ok |-> TRUE, items |-> dict_set(items, item_id, items[item_id] - qty)]

\* an add that stores current + qty without looking at the stack limit
Inventory_add_uncapped(items, item_id, qty) ==
    [ok |-> TRUE, items |-> dict_set(items, item_id, inv_get(items, item_id) + qty)]

\* Inventory.add(item_id, qty): the new dict and the returned bool
Inventory_add(items, item_id, qty) ==
    IF qty <= 0 THEN [ok |-> FALSE, items |-> items]
    ELSE IF ~is_stackable(item_id)
         THEN IF item_id \in DOMAIN items
              THEN [ok |-> FALSE, items |-> items]
              ELSE [ok |-> TRUE, items |-> dict_set(items, item_id, 1)]
         ELSE [ok |-> TRUE,
               items |-> dict_set(items, item_id,
                                  Min2(inv_get(items, item_id) + qty,
                                       get_max_stack(item_id)))]

\* ------------------------------------------------------ dialogue triggers
\* flags is the dict of flags set to True; the update is made in place
update_flags(effect, flags) == flags \cup {effect.key}

\* one effect string of a matched trigger, acting on (flags, both inventories)
apply_effect(effect, w) ==
    IF effect.kind = "flags"
    THEN [w EXCEPT !.flags = update_flags(effect, w.flags)]
    ELSE IF effect.kind = "inventory.give"
    THEN LET r == Inventory_remove(w.player_inv, effect.item, 1)
         IN  IF r.ok
             THEN [w EXCEPT !.player_inv = r.items,
                            !.npc_inv = Inventory_add(w.npc_inv, effect.item, 1).items]
             ELSE w
    ELSE w

RECURSIVE apply_effects(_, _)
apply_effects(effects, w) ==
    IF effects = <<>> THEN w
    ELSE apply_effects(Tail(effects), apply_effect(Head(effects), w))

\* any(keyword.lower() in message_lower for keyword in keywords)
keyword_match(trigger, user_input) ==
    \E kw \in trigger.keywords :
        \E i \in DOMAIN user_input : lower(user_input[i]) = lower(kw)

\* trigger.get("approval_change", 0)
trigger_delta(trigger) ==
    IF "approval_change" \in DOMAIN trigger THEN trigger.approval_change ELSE 0

\* the journal entry of a matched trigger: its system_message, or a line made
\* of its id and description
trigger_entry(trigger) ==
    IF "system_message" \in DOMAIN trigger /\ trigger.system_message # <<>>
    THEN trigger.system_message
    ELSE LET trigger_id == IF "id" \in DOMAIN trigger THEN trigger.id ELSE "unknown"
             desc == IF "description" \in DOMAIN trigger THEN trigger.description
                     ELSE ""
         IN  <<"[Story Trigger]", trigger_id, IF desc # "" THEN desc ELSE "triggered">>

\* a trigger loop that keeps the approval_change of the latest match only
RECURSIVE run_triggers_last_delta(_, _, _)
run_triggers_last_delta(triggers, user_input, w) ==
    IF triggers = <<>> THEN w
    ELSE LET trigger == Head(triggers)
         IN  IF trigger.trigger_type # "keyword_match"
                \/ ~keyword_match(trigger, user_input)
             THEN run_triggers_last_delta(Tail(triggers), user_input, w)
             ELSE LET w1 == apply_effects(trigger.effects, w)
                      w2 == [w1 EXCEPT
                               !.relationship_delta = trigger_delta(trigger),
                               !.journal_entries = Append(@, trigger_entry(trigger))]
                  IN  run_triggers_last_delta(Tail(triggers), user_input, w2)

RECURSIVE run_triggers(_, _, _)
run_triggers(triggers, user_input, w) ==
    IF triggers = <<>> THEN w
    ELSE LET trigger == Head(triggers)
         IN  IF trigger.trigger_type # "keyword_match"
                \/ ~keyword_match(trigger, user_input)
             THEN run_triggers(Tail(triggers), user_input, w)
             ELSE LET w1 == apply_effects(trigger.effects, w)
                      w2 == [w1 EXCEPT
                               !.relationship_delta = @ + trigger_delta(trigger),
                               !.journal_entries = Append(@, trigger_entry(trigger))]
                  IN  run_triggers(Tail(triggers), user_input, w2)

process_dialogue_triggers(user_input, triggers_config, flags, player_inv, npc_inv) ==
    LET w0 == [ journal_entries    |-> <<>>,
                relationship_delta |-> 0,
                flags              |-> flags,
                player_inv         |-> player_inv,
                npc_inv            |-> npc_inv ]
    IN  IF user_input = <<>> \/ triggers_config = <<>> THEN w0
        ELSE run_triggers(triggers_config, user_input, w0)

\* ----------------------------------------------------- Node 4: generation
_msg_content(m) == m.content

_message_to_dict(m) ==
    IF "role" \in DOMAIN m
    THEN [ role    |-> IF m.role \in {"user", "assistant"} THEN m.role ELSE "user",
           content |-> m.content ]
    ELSE [ role    |-> IF m.type = "human" THEN "user"
                       ELSE IF m.type = "ai" THEN "assistant" ELSE "user",
           content |-> m.content ]

\* step 1 of the node: the triggers, run on copies of the inventories and on
\* the flags dict itself
node_triggers(triggers_config, state, flags) ==
    process_dialogue_triggers(state.user_input, triggers_config, flags,
                              state.player_inventory, state.npc_inventory)

generation_triggers(state, flags) == node_triggers(DialogueTriggers, state, flags)

\* Format one held item for the prompt: "name x n" for n > 1, the bare name
\* otherwise
display_entry(item_id, qty) ==
    IF qty > 1 THEN <<get_name(item_id), "x", ToString(qty)>> ELSE <<get_name(item_id)>>

\* the listing of an inventory dict, one entry per held item
format_inventory_dict_to_display_list(inv) ==
    { display_entry(item_id, inv[item_id]) : item_id \in DOMAIN inv }

generation_prompt_stale(state, flags) ==
    LET tr == generation_triggers(state, flags)
        npc_inv == state.npc_inventory
    IN  [ relationship_score |-> state.relationship + tr.relationship_delta,
          flags              |-> tr.flags,
          journal_entries    |-> state.journal_events,
          inventory_items    |-> format_inventory_dict_to_display_list(npc_inv),
          has_healing_potion |-> inv_get(npc_inv, "healing_potion") > 1 ]

\* steps 2 to 4 of the node: what render_prompt is called with, computed from
\* the NPC inventory as the triggers left it
generation_prompt(state, flags) ==
    LET tr == generation_triggers(state, flags)
        npc_inv == tr.npc_inv
    IN  [ relationship_score |-> state.relationship + tr.relationship_delta,
          flags              |-> tr.flags,
          journal_entries    |-> state.journal_events,
          inventory_items    |-> format_inventory_dict_to_display_list(npc_inv),
          has_healing_potion |-> inv_get(npc_inv, "healing_potion") >= 1 ]

\* the message list handed to generate_dialogue
generation_history(state) ==
    LET messages == state.messages
        full == IF messages = <<>>
                   \/ _msg_content(messages[Len(messages)]) # state.user_input
                THEN Append(messages, [role |-> "user", content |-> state.user_input])
                ELSE messages
    IN  [i \in DOMAIN full |-> _message_to_dict(full[i])]

\* the dict the node returns once the model has answered
create_generation_node(triggers_config, state, flags, reply) ==
    LET user_input == state.user_input
        tr   == node_triggers(triggers_config, state, flags)
        text == IF reply = <<>> THEN <<"...">> ELSE reply
        ran_triggers == user_input # <<>> /\ triggers_config # <<>>
    IN  [ final_response |-> text,
          messages |-> << [type |-> "human", content |-> user_input],
                          [type |-> "ai", content |-> text] >> ]
        @@ (IF tr.journal_entries # <<>>
            THEN [journal_events |-> tr.journal_entries] ELSE EmptyDict)
        @@ (IF ran_triggers
            THEN [ player_inventory |-> tr.player_inv,
                   npc_inventory    |-> tr.npc_inv ]
            ELSE EmptyDict)
        @@ (IF ran_triggers /\ tr.relationship_delta # 0
            THEN [relationship |-> state.relationship + tr.relationship_delta]
            ELSE EmptyDict)

\* the node built for the loaded character
generation_node(state, flags, reply) ==
    create_generation_node(DialogueTriggers, state, flags, reply)

\* ------------------------------------------------------ relationship tiers
\* a tier table whose top boundary is one point too high
get_relationship_status_shifted(relationship_score) ==
    IF relationship_score >= 82 THEN "Devoted"
    ELSE IF relationship_score >= 41 THEN "Trusting"
    ELSE IF relationship_score >= 11 THEN "Friendly"
    ELSE IF relationship_score >= -9 THEN "Neutral"
    ELSE IF relationship_score >= -49 THEN "Negative"
    ELSE "Hostile"

\* CharacterLoader.get_relationship_status; the tier is named by the English
\* word of the returned string
get_relationship_status(relationship_score) ==
    IF relationship_score >= 81 THEN "Devoted"
    ELSE IF relationship_score >= 41 THEN "Trusting"
    ELSE IF relationship_score >= 11 THEN "Friendly"
    ELSE IF relationship_score >= -9 THEN "Neutral"
    ELSE IF relationship_score >= -49 THEN "Negative"
    ELSE "Hostile"

\* get_relationship_status of the static character module
shadowheart_get_relationship_status(relationship_score) ==
    IF relationship_score >= 81 THEN "Devoted"
    ELSE IF relationship_score >= 41 THEN "Trusting"
    ELSE IF relationship_score >= 11 THEN "Friendly"
    ELSE IF relationship_score >= -9 THEN "Neutral"
    ELSE IF relationship_score >= -49 THEN "Negative"
    ELSE "Hostile"

\* ------------------------------------------------- engine: reply parsing
\* A reply is the list of its whitespace-separated pieces; a tag is written
\* as its opening piece, its value and the closing bracket.
signed_int(tok) ==
    CASE tok = "+3" -> 3
      [] tok = "-1" -> -1
      [] tok = "-9" -> -9
      [] tok = "1"  -> 1
      [] tok = "2"  -> 2

is_signed_int(tok) == tok \in {"+3", "-1", "-9", "1", "2"}

is_state_name(tok) == tok \in {"SILENT", "VULNERABLE", "NORMAL"}

is_word(tok) == tok \in {"USE_POTION"}

\* re.sub(thought_pattern, '', text): every [THOUGHT] ... [/THOUGHT] block,
\* each closed by the first [/THOUGHT] after it, is cut out
RECURSIVE strip_thought(_)
strip_thought(text) ==
    LET opens == { i \in DOMAIN text :
                     /\ text[i] = "[THOUGHT]"
                     /\ \E j \in DOMAIN text : j > i /\ text[j] = "[/THOUGHT]" }
    IN  IF opens = {} THEN text
        ELSE LET i == CHOOSE x \in opens : \A y \in opens : x <= y
                 j == CHOOSE x \in DOMAIN text :
                        /\ x > i /\ text[x] = "[/THOUGHT]"
                        /\ \A y \in DOMAIN text :
                             (y > i /\ text[y] = "[/THOUGHT]") => x <= y
             IN  SubSeq(text, 1, i - 1) \o strip_thought(SubSeq(text, j + 1, Len(text)))

\* re.finditer of a tag pattern: the positions where a tag starts
approval_matches(text) ==
    { p \in DOMAIN text :
        /\ p + 2 <= Len(text)
        /\ text[p] = "[APPROVAL:" /\ is_signed_int(text[p + 1]) /\ text[p + 2] = "]" }

state_matches(text) ==
    { p \in DOMAIN text :
        /\ p + 2 <= Len(text)
        /\ text[p] = "[STATE:" /\ is_state_name(text[p + 1]) /\ text[p + 2] = "]" }

action_matches(text) ==
    { p \in DOMAIN text :
        /\ p + 2 <= Len(text)
        /\ text[p] = "[ACTION:" /\ is_word(text[p + 1]) /\ text[p + 2] = "]" }

\* re.sub(pattern, '', text) for the matches found in text
RECURSIVE cut_matches(_, _, _)
cut_matches(text, matches, p) ==
    IF p > Len(text) THEN <<>>
    ELSE IF p \in matches THEN cut_matches(text, matches, p + 3)
    ELSE <<text[p]>> \o cut_matches(text, matches, p + 1)

last_of(matches) == CHOOSE p \in matches : \A q \in matches : q <= p

\* approval_matches[-1].group(1) as an integer
last_approval(text, matches) == signed_int(text[last_of(matches) + 1])

parse_ai_response(response_text) ==
    IF response_text = <<>>
    THEN [ approval |-> 0, new_state |-> "None", action |-> "None", text |-> <<>> ]
    ELSE LET cleaned0 == strip_thought(response_text)
             am == approval_matches(cleaned0)
             sm == state_matches(cleaned0)
             xm == action_matches(cleaned0)
             approval == IF am = {} THEN 0
                         ELSE Max2(-5, Min2(5, last_approval(cleaned0, am)))
             cleaned1 == cut_matches(cleaned0, approval_matches(cleaned0), 1)
             cleaned2 == cut_matches(cleaned1, state_matches(cleaned1), 1)
             cleaned3 == cut_matches(cleaned2, action_matches(cleaned2), 1)
         IN  [ approval  |-> approval,
               new_state |-> IF sm = {} THEN "None" ELSE cleaned0[last_of(sm) + 1],
               action    |-> IF xm = {} THEN "None" ELSE cleaned0[last_of(xm) + 1],
               text      |-> cleaned3 ]

\* ----------------------------------------------------------------- quests
\* A condition string is the token list <<"flags.", key, op, literal>>, or
\* <<"True">>, or <<>>.
\* Python values a flag can hold: booleans and integers compare by number
\* (True == 1), strings by content, None only to itself.
PyBool(b) == [py |-> "bool", n |-> IF b THEN 1 ELSE 0]

PyInt(n) == [py |-> "int", n |-> n]

PyStr(tok) == [py |-> "str", s |-> tok]

PyNone == [py |-> "None"]

py_eq(a, b) ==
    IF "n" \in DOMAIN a /\ "n" \in DOMAIN b THEN a.n = b.n ELSE a = b

\* rhs.strip('"').strip("'")
strip_quotes(tok) ==
    CASE tok = "'gold'" -> "gold"
      [] tok = "'True'" -> "True"
      [] OTHER -> tok

\* ast.literal_eval(rhs), and the stripped string when it raises
literal_eval(rhs) ==
    IF Len(rhs) # 1 THEN PyStr(rhs)
    ELSE CASE rhs[1] = "True"  -> PyBool(TRUE)
           [] rhs[1] = "False" -> PyBool(FALSE)
           [] rhs[1] = "None"  -> PyNone
           [] rhs[1] \in Digits -> PyInt(int_of(rhs[1]))
           [] OTHER -> PyStr(strip_quotes(rhs[1]))

\* the position of the first token equal to op, 0 if there is none
first_index(condition, op) ==
    IF \E i \in DOMAIN condition : condition[i] = op
    THEN CHOOSE i \in DOMAIN condition :
            /\ condition[i] = op
            /\ \A j \in 1 .. (i - 1) : condition[j] # op
    ELSE 0

\* a lookup that takes an unset flag for False
dict_get_false(flag_values, key) ==
    IF key \in DOMAIN flag_values THEN flag_values[key] ELSE PyBool(FALSE)

\* flags.get(key)
dict_get_none(flag_values, key) ==
    IF key \in DOMAIN flag_values THEN flag_values[key] ELSE PyNone

\* check_condition on a flags dict that maps keys to Python values
check_condition_values(condition, flag_values) ==
    IF condition = <<>> THEN TRUE
    ELSE IF condition = <<"True">> THEN TRUE
    ELSE LET at == IF first_index(condition, "==") # 0
                   THEN first_index(condition, "==")
                   ELSE first_index(condition, "!=")
         IN  IF at = 0 THEN FALSE
             ELSE LET operator == condition[at]
                      lhs == SubSeq(condition, 1, at - 1)
                      rhs == SubSeq(condition, at + 1, Len(condition))
                  IN  IF lhs = <<>> \/ lhs[1] # "flags." THEN FALSE
                      ELSE IF Len(lhs) = 1 \/ lhs[2] = "" THEN FALSE
                      ELSE LET rhs_value == literal_eval(rhs)
                               current_value ==
                                   IF Len(lhs) = 2
                                   THEN dict_get_none(flag_values, lhs[2])
                                   ELSE PyNone
                           IN  IF operator = "=="
                               THEN py_eq(current_value, rhs_value)
                               ELSE ~py_eq(current_value, rhs_value)

\* check_condition on the flags that are set True
check_condition(condition, flags) ==
    check_condition_values(condition, [k \in flags |-> PyBool(TRUE)])

\* stage.get("condition", "True") and stage.get("status", "ACTIVE")
stage_condition(stage) ==
    IF "condition" \in DOMAIN stage THEN stage.condition ELSE <<"True">>

stage_status_of(stage) ==
    IF "status" \in DOMAIN stage THEN stage.status ELSE "ACTIVE"

NoStage == [none |-> TRUE]

\* the loop over the stages of one quest: acc is (current_stage, is_completed,
\* stage_status) as the loop body leaves them
RECURSIVE scan_stages(_, _, _)
scan_stages(stages, flags, acc) ==
    IF stages = <<>> THEN acc
    ELSE LET stage == Head(stages)
         IN  IF check_condition(stage_condition(stage), flags)
             THEN scan_stages(Tail(stages), flags,
                              [ current_stage |-> stage,
                                stage_status  |-> stage_status_of(stage),
                                is_completed  |-> \/ acc.is_completed
                                                  \/ stage_status_of(stage) = "COMPLETED" ])
             ELSE scan_stages(Tail(stages), flags, acc)

RECURSIVE check_quests(_, _)
check_quests(quests_config, flags) ==
    IF quests_config = <<>> THEN <<>>
    ELSE LET quest == Head(quests_config)
             rest  == check_quests(Tail(quests_config), flags)
             acc   == scan_stages(quest.stages, flags,
                                  [ current_stage |-> NoStage,
                                    stage_status  |-> "ACTIVE",
                                    is_completed  |-> FALSE ])
         IN  IF quest.stages = <<>> \/ acc.current_stage = NoStage THEN rest
             ELSE << [ id                |-> quest.id,
                       title             |-> quest.title,
                       stage_id          |-> acc.current_stage.id,
                       stage_description |-> acc.current_stage.description,
                       completed         |-> acc.is_completed,
                       status            |-> acc.stage_status ] >> \o rest

\* ---------------------------------------------------------------- journal
add_entry_keep_oldest(entries, text, turn_count) ==
    LET appended == Append(entries, [turn |-> turn_count, text |-> text])
    IN  IF Len(appended) > MAX_ENTRIES
        THEN SubSeq(appended, 1, MAX_ENTRIES)
        ELSE appended

\* an entry is "[Turn n] text"; the list keeps its last MAX_ENTRIES
add_entry(entries, text, turn_count) ==
    LET appended == Append(entries, [turn |-> turn_count, text |-> text])
    IN  IF Len(appended) > MAX_ENTRIES
        THEN SubSeq(appended, Len(appended) - MAX_ENTRIES + 1, Len(appended))
        ELSE appended

\* self._entries[-limit:], for limit >= 1
get_recent_entries(entries, limit) ==
    IF entries = <<>> THEN <<>>
    ELSE SubSeq(entries, Max2(1, Len(entries) - limit + 1), Len(entries))

\* Journal.to_dict and Journal.from_dict on a saved list: plain copies
journal_to_dict(entries) == entries

journal_from_dict(data) == data

RECURSIVE add_entries(_, _, _)
add_entries(entries, events, turn_count) ==
    IF events = <<>> THEN entries
    ELSE add_entries(add_entry(entries, Head(events), turn_count),
                     Tail(events), turn_count)

\* ----------------------------------------------------------------- memory
\* GameSession.build_memory_data
build_memory_data(rel, hist, npc, fl, pinv, ninv, jrn) ==
    [ relationship_score |-> rel,
      history            |-> hist,
      npc_state          |-> npc,
      flags              |-> fl,
      inventory_player   |-> pinv,
      inventory_npc      |-> ninv,
      journal            |-> jrn ]

\* MemoryManager.save: the file is rewritten with the document
save(old_doc, data) == data

\* an exit path that leaves the file as the last turn wrote it
exit_without_save(old_doc, data) == old_doc

\* main(): the save that follows the loop, on quit and on KeyboardInterrupt
exit_save(old_doc, data) == save(old_doc, data)

\* ================================================================= state
VARIABLES
    relationship_score,    \* GameSession.relationship_score
    npc_state,             \* GameSession.npc_state
    flags,                 \* the flags dict object (shared with the graph state)
    player_inventory,      \* GameSession.player_inventory.items
    npc_inventory,         \* GameSession.character.inventory.items
    conversation_history,  \* GameSession.conversation_history
    journal,               \* GameSession.journal._entries
    running,               \* GameSession.running
    persisted,             \* the JSON document on disk
    pc,                    \* where the main loop / the graph run stands
    state,                 \* the GameState of the running graph.invoke
    turns,                 \* graph turns started so far
    ran,                   \* nodes executed in the current turn, in order
    input_intent,          \* the intent the input node set in the current turn
    dm_failed,             \* the intent analyzer raised in the current turn
    checks,                \* skill checks rolled in the current turn
    sent,                  \* message list given to the dialogue model this turn
    prompt,                \* arguments given to render_prompt this turn
    rejected,              \* texts of failed commands and of their error replies
    last,                  \* how the previous loop iteration ended, and from where
    comp                   \* the object exercised by a component specification

main_vars == << relationship_score, npc_state, flags, player_inventory,
               npc_inventory, conversation_history, journal, running, persisted,
               pc, state, turns, ran, input_intent, dm_failed, checks, sent, prompt,
               rejected, last >>

vars == << main_vars, comp >>

session_vars == << relationship_score, npc_state, flags, player_inventory,
                   npc_inventory, conversation_history, journal >>

turn_log == << ran, input_intent, dm_failed, checks, sent >>

NoDocument == [unsaved |-> TRUE]

NoState == [idle |-> TRUE]

NoCall == << [none |-> TRUE] >>

NoPrompt == [none |-> TRUE]

NoComponent == [kind |-> "none"]

\* the document build_memory_data() would produce now
MemoryData ==
    build_memory_data(relationship_score, conversation_history, npc_state, flags,
                      player_inventory, npc_inventory, journal)

MainInit ==
    /\ relationship_score \in InitRelationships
    /\ npc_state = [status |-> "NORMAL", duration |-> 0]
    /\ flags = {}
    /\ player_inventory = SeedPlayerInventory
    /\ npc_inventory = EmptyInventory
    /\ conversation_history = <<>>
    /\ journal = <<>>
    /\ running = TRUE
    /\ persisted = NoDocument
    /\ pc = "prompt"
    /\ state = NoState
    /\ turns = 0
    /\ ran = <<>>
    /\ input_intent = ""
    /\ dm_failed = FALSE
    /\ checks = 0
    /\ sent = NoCall
    /\ prompt = NoPrompt
    /\ rejected = {}
    /\ last = [outcome |-> "start", pre |-> NoDocument]

Init ==
    /\ MainInit
    /\ comp = NoComponent

\* ------------------------------------------------------------- main loop
is_quit(user_input) ==
    Len(user_input) = 1 /\ lower(user_input[1]) \in {"quit", "exit", "q"}

\* turn(): empty input returns "continue"; main() then saves
EmptyInput ==
    /\ pc = "prompt"
    /\ \E user_input \in UserInputs : user_input = <<>>
    /\ persisted' = save(persisted, MemoryData)
    /\ last' = [outcome |-> "empty", pre |-> MemoryData]
    /\ UNCHANGED << comp, prompt, session_vars, running, pc, state, turns, turn_log, rejected >>

\* turn(): a quit word stops the loop; main() breaks and saves after the loop
Quit ==
    /\ pc = "prompt"
    /\ \E user_input \in UserInputs : is_quit(user_input)
    /\ running' = FALSE
    /\ persisted' = exit_save(persisted, MemoryData)
    /\ pc' = "exited"
    /\ last' = [outcome |-> "quit", pre |-> MemoryData]
    /\ UNCHANGED << comp, prompt, session_vars, state, turns, turn_log, rejected >>

\* KeyboardInterrupt while waiting at the prompt: break, then the final save
PromptInterrupt ==
    /\ pc = "prompt"
    /\ persisted' = exit_save(persisted, MemoryData)
    /\ pc' = "exited"
    /\ last' = [outcome |-> "interrupt", pre |-> MemoryData]
    /\ UNCHANGED << comp, prompt, session_vars, running, state, turns, turn_log, rejected >>

\* turn(): build the state payload and enter graph.invoke
StartTurn ==
    /\ pc = "prompt"
    /\ turns < MaxTurns
    /\ \E user_input \in UserInputs :
        /\ user_input # <<>>
        /\ ~is_quit(user_input)
        /\ state' = [ messages          |-> add_messages(<<>>, conversation_history),
                      user_input        |-> user_input,
                      relationship      |-> relationship_score,
                      npc_state         |-> npc_state,
                      player_inventory  |-> player_inventory,
                      npc_inventory     |-> npc_inventory,
                      journal_events    |-> merge_events(<<>>, <<>>),
                      intent            |-> "",
                      intent_context    |-> <<>>,
                      final_response    |-> <<>>,
                      is_probing_secret |-> FALSE ]
    /\ pc' = "input_processing"
    /\ turns' = turns + 1
    /\ ran' = <<>>
    /\ input_intent' = ""
    /\ dm_failed' = FALSE
    /\ checks' = 0
    /\ sent' = NoCall
    /\ prompt' = NoPrompt
    /\ last' = [outcome |-> "running", pre |-> MemoryData]
    /\ UNCHANGED << comp, session_vars, running, persisted, rejected >>

\* ------------------------------------------------------- graph execution
\* whether dm_node reaches the analyzer call (it returns {} when it skips)
analyzer_called(st) ==
    DOMAIN dm_node(st, [action_type |-> "NONE", difficulty_class |-> 0]) # {}

InputNode ==
    /\ pc = "input_processing"
    /\ \E rolls \in EffectRolls :
       LET s1 == ApplyUpdate(state, input_node(state, rolls))
       IN  /\ state' = s1
           /\ pc' = route_after_input(s1)
           /\ input_intent' = s1.intent
    /\ ran' = Append(ran, "input_processing")
    /\ UNCHANGED << comp, prompt, session_vars, running, persisted, turns, dm_failed, checks,
                    sent, rejected, last >>

DmNode ==
    /\ pc = "dm_analysis"
    /\ \E a \in AnalysisActionTypes, d \in AnalysisDCs :
        LET analysis == analyze_intent([action_type |-> a, difficulty_class |-> d])
            s1 == ApplyUpdate(state, dm_node(state, analysis))
        IN  /\ state' = s1
            /\ pc' = route_after_dm(s1)
    /\ ran' = Append(ran, "dm_analysis")
    /\ UNCHANGED << comp, prompt, input_intent, session_vars, running, persisted, turns, dm_failed, checks,
                    sent, rejected, last >>

\* analyze_intent raises (template, API call or JSON); dm_node does not catch
DmNodeRaises ==
    /\ pc = "dm_analysis"
    /\ analyzer_called(state)
    /\ pc' = "raised"
    /\ dm_failed' = TRUE
    /\ ran' = Append(ran, "dm_analysis")
    /\ UNCHANGED << comp, prompt, input_intent, session_vars, running, persisted, state, turns, checks,
                    sent, rejected, last >>

MechanicsNode ==
    /\ pc = "mechanics_processing"
    /\ \E rolls \in RollsFor(determine_roll_type(state.intent, state.relationship)) :
        LET upd == mechanics_node(state, rolls)
        IN  /\ state' = ApplyUpdate(state, upd)
            /\ checks' = IF DOMAIN upd # {} THEN checks + 1 ELSE checks
    /\ pc' = "generation"
    /\ ran' = Append(ran, "mechanics_processing")
    /\ UNCHANGED << comp, prompt, input_intent, session_vars, running, persisted, turns, dm_failed, sent,
                    rejected, last >>

GenerationNode ==
    /\ pc = "generation"
    /\ \E reply \in Replies :
        state' = ApplyUpdate(state, generation_node(state, flags, reply))
    /\ flags' = generation_triggers(state, flags).flags
    /\ sent' = generation_history(state)
    /\ prompt' = generation_prompt(state, flags)
    /\ pc' = "__end__"
    /\ ran' = Append(ran, "generation")
    /\ UNCHANGED << comp, input_intent, relationship_score, npc_state, player_inventory, npc_inventory,
                    conversation_history, journal, running, persisted, turns,
                    dm_failed, checks, rejected, last >>

\* render_prompt raises (template missing) after the triggers have run
GenerationRaises ==
    /\ pc = "generation"
    /\ flags' = generation_triggers(state, flags).flags
    /\ prompt' = generation_prompt(state, flags)
    /\ pc' = "raised"
    /\ ran' = Append(ran, "generation")
    /\ UNCHANGED << comp, input_intent, relationship_score, npc_state, player_inventory, npc_inventory,
                    conversation_history, journal, running, persisted, state, turns,
                    dm_failed, checks, sent, rejected, last >>

\* KeyboardInterrupt while the dialogue model is being called
GenerationInterrupt ==
    /\ pc = "generation"
    /\ flags' = generation_triggers(state, flags).flags
    /\ sent' = generation_history(state)
    /\ prompt' = generation_prompt(state, flags)
    /\ pc' = "interrupted"
    /\ ran' = Append(ran, "generation")
    /\ UNCHANGED << comp, input_intent, relationship_score, npc_state, player_inventory, npc_inventory,
                    conversation_history, journal, running, persisted, state, turns,
                    dm_failed, checks, rejected, last >>

\* --------------------------------------------------- back in turn()/main()
\* turn() after graph.invoke returned, then main()'s save
TurnCommit ==
    /\ pc = "__end__"
    /\ LET turn_count == Len(conversation_history) \div 2
           journal1 == add_entries(journal, state.journal_events, turn_count)
           history1 == Append(conversation_history,
                              [role |-> "user", content |-> state.user_input])
           history2 == IF state.final_response # <<>>
                       THEN Append(history1, [role |-> "assistant",
                                              content |-> state.final_response])
                       ELSE history1
       IN  /\ journal' = journal1
           /\ relationship_score' = state.relationship
           /\ npc_state' = state.npc_state
           /\ flags' = flags
           /\ player_inventory' = state.player_inventory
           /\ npc_inventory' = state.npc_inventory
           /\ conversation_history' = history2
           /\ persisted' = save(persisted,
                  build_memory_data(state.relationship, history2, state.npc_state,
                                    flags, state.player_inventory,
                                    state.npc_inventory, journal1))
    /\ rejected' = IF state.intent = "command_done"
                   THEN rejected \cup {state.user_input, state.final_response}
                   ELSE rejected
    /\ last' = [ outcome |-> IF state.intent = "command_done"
                             THEN "command_done" ELSE "completed",
                 pre |-> last.pre ]
    /\ pc' = "prompt"
    /\ state' = NoState
    /\ ran' = <<>>
    /\ input_intent' = ""
    /\ dm_failed' = FALSE
    /\ checks' = 0
    /\ sent' = NoCall
    /\ prompt' = NoPrompt
    /\ UNCHANGED << comp, running, turns >>

\* turn(): "except Exception" around graph.invoke, then main()'s save
GraphError ==
    /\ pc = "raised"
    /\ persisted' = save(persisted, MemoryData)
    /\ last' = [outcome |-> "graph_error", pre |-> last.pre]
    /\ pc' = "prompt"
    /\ state' = NoState
    /\ ran' = <<>>
    /\ input_intent' = ""
    /\ dm_failed' = FALSE
    /\ checks' = 0
    /\ sent' = NoCall
    /\ prompt' = NoPrompt
    /\ UNCHANGED << comp, session_vars, running, turns, rejected >>

\* main(): "except KeyboardInterrupt: break", then the save after the loop
InterruptExit ==
    /\ pc = "interrupted"
    /\ persisted' = exit_save(persisted, MemoryData)
    /\ last' = [outcome |-> "interrupt", pre |-> last.pre]
    /\ pc' = "exited"
    /\ UNCHANGED << comp, prompt, session_vars, running, state, turns, turn_log, rejected >>

Next ==
    \/ EmptyInput
    \/ Quit
    \/ PromptInterrupt
    \/ StartTurn
    \/ InputNode
    \/ DmNode
    \/ DmNodeRaises
    \/ MechanicsNode
    \/ GenerationNode
    \/ GenerationRaises
    \/ GenerationInterrupt
    \/ TurnCommit
    \/ GraphError
    \/ InterruptExit

Spec == Init /\ [][Next]_vars

\* ======================================================= component: inventory
\* Two Inventory objects (the player's and the NPC's) driven through add,
\* remove and the two player-to-NPC transfers, with the main loop not running.
Parked ==
    /\ MainInit
    /\ relationship_score = 0

InvItems == {"healing_potion", "arrow", "sword"}

AddQtys == {0, 1, 150}

RemoveQtys == {0, 1, 2}

InitInventory ==
    /\ Parked
    /\ comp = [ kind    |-> "inventory",
                player  |-> EmptyInventory,
                npc     |-> EmptyInventory,
                journal |-> <<>>,
                ops     |-> 0,
                last    |-> [ op |-> "none", item |-> "", qty |-> 0, ok |-> FALSE,
                              player_before |-> EmptyInventory,
                              npc_before    |-> EmptyInventory ] ]

InvOp(op, item, qty, ok) ==
    [ op |-> op, item |-> item, qty |-> qty, ok |-> ok,
      player_before |-> comp.player, npc_before |-> comp.npc ]

\* player_inventory.add(item_id, qty)
InvAdd ==
    /\ comp.kind = "inventory"
    /\ comp.ops < MaxInvOps
    /\ \E item \in InvItems, qty \in AddQtys :
        LET r == Inventory_add(comp.player, item, qty)
        IN  comp' = [comp EXCEPT !.player = r.items,
                                 !.ops = @ + 1,
                                 !.last = InvOp("add", item, qty, r.ok)]
    /\ UNCHANGED main_vars

\* player_inventory.remove(item_id, qty)
InvRemove ==
    /\ comp.kind = "inventory"
    /\ comp.ops < MaxInvOps
    /\ \E item \in InvItems, qty \in RemoveQtys :
        LET r == Inventory_remove(comp.player, item, qty)
        IN  comp' = [comp EXCEPT !.player = r.items,
                                 !.ops = @ + 1,
                                 !.last = InvOp("remove", item, qty, r.ok)]
    /\ UNCHANGED main_vars

\* a matched dialogue trigger whose effect is "inventory.give:<item>"
InvTriggerGive ==
    /\ comp.kind = "inventory"
    /\ comp.ops < MaxInvOps
    /\ \E item \in InvItems :
        LET w == apply_effect([kind |-> "inventory.give", item |-> item],
                              [ flags |-> {}, player_inv |-> comp.player,
                                npc_inv |-> comp.npc ])
        IN  comp' = [comp EXCEPT !.player = w.player_inv,
                                 !.npc = w.npc_inv,
                                 !.ops = @ + 1,
                                 !.last = InvOp("trigger_give", item, 1,
                                                w.player_inv # comp.player)]
    /\ UNCHANGED main_vars

\* InputHandler.handle on "/give <item>": the pair of inventories and the
\* journal after the call, and whether the transfer branch was taken
handle_give(player_inv, npc_inv, jrn, item_key, turn_count) ==
    IF ~Inventory_has(player_inv, item_key, 1)
    THEN [ ok |-> FALSE, player_inv |-> player_inv, npc_inv |-> npc_inv,
           journal |-> jrn ]
    ELSE [ ok |-> TRUE,
           player_inv |-> Inventory_remove(player_inv, item_key, 1).items,
           npc_inv    |-> Inventory_add(npc_inv, item_key, 1).items,
           journal    |-> add_entry(jrn, <<"Player", "gave", item_key, "to", "Shadowheart.">>, turn_count) ]

InvLegacyGive ==
    /\ comp.kind = "inventory"
    /\ comp.ops < MaxInvOps
    /\ \E item \in InvItems :
        LET r == handle_give(comp.player, comp.npc, comp.journal, item, comp.ops)
        IN  comp' = [comp EXCEPT !.player = r.player_inv,
                                 !.npc = r.npc_inv,
                                 !.journal = r.journal,
                                 !.ops = @ + 1,
                                 !.last = InvOp("legacy_give", item, 1, r.ok)]
    /\ UNCHANGED main_vars

NextInventory ==
    \/ InvAdd
    \/ InvRemove
    \/ InvTriggerGive
    \/ InvLegacyGive

SpecInventory == InitInventory /\ [][NextInventory]_vars

\* ================================================== component: memory manager
\* The save file as MemoryManager finds it, and what load returns from it.
JNull == [null |-> TRUE]

JNum(n) == [null |-> FALSE, num |-> n]

DefaultKeys ==
    { "relationship_score", "history", "npc_state", "flags", "summary",
      "inventory_player", "inventory_npc", "journal" }

default_state(default_relationship) ==
    [ relationship_score |-> JNum(default_relationship),
      history            |-> <<>>,
      npc_state          |-> [status |-> "NORMAL", duration |-> 0],
      flags              |-> {},
      summary            |-> <<>>,
      inventory_player   |-> EmptyInventory,
      inventory_npc      |-> EmptyInventory,
      journal            |-> <<>> ]

\* documents found on disk: keys a saved mapping may carry besides thread_id,
\* and their values
SavedKeys == {"relationship_score", "history", "summary", "journal", "flags"}

SavedValue(key, rel) ==
    IF key = "relationship_score" THEN rel
    ELSE IF key = "history" THEN << [role |-> "user", content |-> <<"hello">>] >>
    ELSE IF key = "summary" THEN <<"They", "met.">>
    ELSE IF key = "journal" THEN << [turn |-> 1, text |-> <<"Player", "gave", "sword">>] >>
    ELSE IF key = "flags" THEN {"gave_artifact"}
    ELSE "shadowheart_default"

SavedLists == { <<>>, << [role |-> "user", content |-> <<"hello">>],
                         [role |-> "assistant", content |-> <<"Hmph.">>] >> }

Contents ==
    { [tag |-> "blank"], [tag |-> "corrupt"], [tag |-> "scalar"] }
    \cup { [tag |-> "list", items |-> l] : l \in SavedLists }
    \cup { [tag |-> "dict",
             value |-> [k \in K \cup {"thread_id"} |-> SavedValue(k, rel)]] :
             K \in SUBSET SavedKeys, rel \in {JNull, JNum(42)} }

Files ==
    { [exists |-> FALSE] }
    \cup { [exists |-> TRUE, readable |-> FALSE] }
    \cup { [exists |-> TRUE, readable |-> TRUE, content |-> c] : c \in Contents }

Baselines == {0, 10}

Raised == [raised |-> TRUE]

Returned(value) == [raised |-> FALSE, value |-> value]

\* json.loads of the stripped text
json_loads(content) ==
    IF content.tag = "corrupt" THEN Raised ELSE Returned(content)

\* the body of the try block of load
load_try(file, default_relationship) ==
    LET dflt == default_state(default_relationship)
    IN  IF ~file.readable THEN Raised
        ELSE IF file.content.tag = "blank" THEN Returned(dflt)
        ELSE LET parsed == json_loads(file.content)
             IN  IF parsed.raised THEN Raised
                 ELSE IF parsed.value.tag = "list"
                 THEN Returned([dflt EXCEPT !.history = parsed.value.items])
                 ELSE IF parsed.value.tag = "dict"
                 THEN LET data == parsed.value.value
                          merged == [ k \in DOMAIN data \cup DefaultKeys |->
                                        IF k \in DOMAIN data THEN data[k] ELSE dflt[k] ]
                      IN  Returned(IF merged.relationship_score = JNull
                                   THEN [merged EXCEPT !.relationship_score =
                                                          JNum(default_relationship)]
                                   ELSE merged)
                 ELSE Returned(dflt)

load_unguarded(file, default_relationship) ==
    IF ~file.exists THEN Returned(default_state(default_relationship))
    ELSE load_try(file, default_relationship)

\* MemoryManager.load
load(file, default_relationship) ==
    IF ~file.exists THEN Returned(default_state(default_relationship))
    ELSE LET r == load_try(file, default_relationship)
         IN  IF r.raised THEN Returned(default_state(default_relationship)) ELSE r

NoLoad == [none |-> TRUE]

InitMemory ==
    /\ Parked
    /\ comp = [ kind |-> "memory", file |-> [exists |-> FALSE], loaded |-> NoLoad ]

\* a document left on disk by an earlier run or an earlier version
MemFileFound ==
    /\ comp.kind = "memory"
    /\ \E f \in Files : comp' = [comp EXCEPT !.file = f]
    /\ UNCHANGED main_vars

MemLoad ==
    /\ comp.kind = "memory"
    /\ \E dr \in Baselines :
        comp' = [comp EXCEPT !.loaded = [ from     |-> comp.file,
                                          baseline |-> dr,
                                          result   |-> load(comp.file, dr) ]]
    /\ UNCHANGED main_vars

\* MemoryManager.save of the state that was loaded
MemSave ==
    /\ comp.kind = "memory"
    /\ comp.loaded # NoLoad
    /\ ~comp.loaded.result.raised
    /\ comp' = [comp EXCEPT !.file =
                   [ exists |-> TRUE, readable |-> TRUE,
                     content |-> [ tag |-> "dict",
                                   value |-> save(comp.file, comp.loaded.result.value) ] ]]
    /\ UNCHANGED main_vars

NextMemory ==
    \/ MemFileFound
    \/ MemLoad
    \/ MemSave

SpecMemory == InitMemory /\ [][NextMemory]_vars

\* ============================================================ component: d20
\* roll_d20 called with a DC, a modifier and a roll type, on every pair of
\* values the two dice can show.
DiceDCs == {5, DEFAULT_DC, 21, 30}

DiceModifiers == {-5, 0, 5}

DiceRollTypes == {"normal", "advantage", "disadvantage", "ADVANTAGE", "lucky"}

NoRoll == [none |-> TRUE]

InitDice ==
    /\ Parked
    /\ \E dc \in DiceDCs, modifier \in DiceModifiers, roll_type \in DiceRollTypes :
        comp = [ kind |-> "dice", dc |-> dc, modifier |-> modifier,
                 roll_type |-> roll_type, result |-> NoRoll ]

DiceRoll ==
    /\ comp.kind = "dice"
    /\ comp.result = NoRoll
    /\ \E a \in 1..D20, b \in 1..D20 :
        comp' = [comp EXCEPT !.result =
                    roll_d20(comp.dc, comp.modifier, comp.roll_type, <<a, b>>)]
    /\ UNCHANGED main_vars

NextDice == DiceRoll

SpecDice == InitDice /\ [][NextDice]_vars

\* ======================================================== component: journal
\* A fresh Journal that receives add_entry calls; added is the list of
\* everything ever added, in call order.
RecentLimits == {1, 3}

InitJournal ==
    /\ Parked
    /\ comp = [ kind |-> "journal", entries |-> <<>>, added |-> <<>>, recent |-> <<>> ]

JournalAdd ==
    /\ comp.kind = "journal"
    /\ Len(comp.added) < MaxAdds
    /\ LET turn_count == Len(comp.added)
           text == IF turn_count % 2 = 0 THEN <<"Skill", "Check">>
                   ELSE <<"Player", "gave", "sword">>
       IN  comp' = [comp EXCEPT
                      !.entries = add_entry(@, text, turn_count),
                      !.added = Append(@, [turn |-> turn_count, text |-> text]),
                      !.recent = <<>>]
    /\ UNCHANGED main_vars

\* the dashboard's journal.get_recent_entries(limit)
JournalRecent ==
    /\ comp.kind = "journal"
    /\ \E limit \in RecentLimits :
        comp' = [comp EXCEPT !.recent = get_recent_entries(comp.entries, limit)]
    /\ UNCHANGED main_vars

\* the journal is saved with to_dict and read back with from_dict
JournalReload ==
    /\ comp.kind = "journal"
    /\ comp' = [comp EXCEPT !.entries = journal_from_dict(journal_to_dict(@)),
                            !.recent = <<>>]
    /\ UNCHANGED main_vars

NextJournal ==
    \/ JournalAdd
    \/ JournalRecent
    \/ JournalReload

SpecJournal == InitJournal /\ [][NextJournal]_vars

\* ========================================================= component: quests
\* check_quests on a quest list and the world flags.
QuestFlags == {"met", "done"}

StagePool ==
    { [ id |-> "start", description |-> "Talk to her." ],
      [ id |-> "met", description |-> "Earn her trust.",
        condition |-> <<"flags.", "met", "==", "True">>, status |-> "ACTIVE" ],
      [ id |-> "done", description |-> "She told you.",
        condition |-> <<"flags.", "done", "==", "True">>, status |-> "COMPLETED" ],
      [ id |-> "waiting", description |-> "She keeps it to herself.",
        condition |-> <<"flags.", "done", "!=", "True">>, status |-> "ACTIVE" ] }

\* a three-stage quest, a quest that starts only once a flag is set, and a
\* quest without stages
QuestConfigs ==
    { << [ id |-> "q1", title |-> "Her secret", stages |-> <<a, b, c>> ],
         [ id |-> "q2", title |-> "The artifact",
           stages |-> << [ id |-> "found", description |-> "You hold it.",
                           condition |-> <<"flags.", "met", "==", "True">>,
                           status |-> "COMPLETED" ] >> ],
         [ id |-> "q3", title |-> "Unwritten", stages |-> <<>> ] >> :
      a \in StagePool, b \in StagePool, c \in StagePool }

NoQuests == << [none |-> TRUE] >>

InitQuest ==
    /\ Parked
    /\ \E quests \in QuestConfigs :
        comp = [ kind |-> "quest", quests |-> quests, flags |-> {},
                 active_quests |-> NoQuests ]

\* a trigger or the admin console sets a world flag
QuestSetFlag ==
    /\ comp.kind = "quest"
    /\ \E key \in QuestFlags \ comp.flags :
        comp' = [comp EXCEPT !.flags = @ \cup {key}, !.active_quests = NoQuests]
    /\ UNCHANGED main_vars

\* the dashboard recomputes the active quests
QuestCheck ==
    /\ comp.kind = "quest"
    /\ comp' = [comp EXCEPT !.active_quests = check_quests(comp.quests, comp.flags)]
    /\ UNCHANGED main_vars

NextQuest ==
    \/ QuestSetFlag
    \/ QuestCheck

SpecQuest == InitQuest /\ [][NextQuest]_vars

\* ============================================== component: relationship tier
\* Both get_relationship_status functions asked for the tier of one score.
Scores == (0 - MaxScore)..MaxScore

NoTier == "unasked"

InitStatus ==
    /\ Parked
    /\ \E score \in Scores :
        comp = [ kind |-> "status", score |-> score,
                 loader |-> NoTier, static |-> NoTier ]

\* the dashboard asks the loader for the tier
StatusFromLoader ==
    /\ comp.kind = "status"
    /\ comp' = [comp EXCEPT !.loader = get_relationship_status(comp.score)]
    /\ UNCHANGED main_vars

\* the legacy path asks the static module
StatusFromStatic ==
    /\ comp.kind = "status"
    /\ comp' = [comp EXCEPT !.static = shadowheart_get_relationship_status(comp.score)]
    /\ UNCHANGED main_vars

NextStatus ==
    \/ StatusFromLoader
    \/ StatusFromStatic

SpecStatus == InitStatus /\ [][NextStatus]_vars

\* ================================================= component: reply parsing
\* parse_ai_response on replies put together from four segments.
Segments ==
    { <<>>, <<"Hello.">>,
      <<"[APPROVAL:", "+3", "]">>, <<"[APPROVAL:", "-1", "]">>,
      <<"[APPROVAL:", "-9", "]">>, <<"[APPROVAL:", "1", "]">>,
      <<"[APPROVAL:">>, <<"2", "]">>,
      <<"[THOUGHT]">>, <<"[/THOUGHT]">>,
      <<"[STATE:", "NORMAL", "]">>, <<"[ACTION:", "USE_POTION", "]">> }

RawReplies == { a \o b \o c \o d : a \in Segments, b \in Segments,
                                   c \in Segments, d \in Segments }

NoParse == [none |-> TRUE]

InitEngine ==
    /\ Parked
    /\ \E raw \in RawReplies :
        comp = [ kind |-> "engine", raw |-> raw, parsed |-> NoParse ]

EngineParse ==
    /\ comp.kind = "engine"
    /\ comp.parsed = NoParse
    /\ comp' = [comp EXCEPT !.parsed = parse_ai_response(comp.raw)]
    /\ UNCHANGED main_vars

NextEngine == EngineParse

SpecEngine == InitEngine /\ [][NextEngine]_vars

\* ==================================================== component: skill check
\* execute_skill_check on a graph state that carries an intent, the analyzer's
\* DC and a relationship score; and the DC the monolithic main loop settles on.
CheckIntents ==
    { "PERSUASION", "DECEPTION", "INTIMIDATION", "ATTACK", "STEAL", "INSIGHT",
      "STEALTH", "ACTION" }

CheckContexts == { <<>>, <<0>>, <<15>> }

CheckRelationships == {-100, -95, -40, -21, -20, -19, -1, 0, 19, 20, 29, 30, 40, 100}

NoCheck == [none |-> TRUE]

InitCheck ==
    /\ Parked
    /\ \E intent \in CheckIntents, ctx \in CheckContexts, rel \in CheckRelationships :
        comp = [ kind |-> "check",
                 state |-> [ intent |-> intent, intent_context |-> ctx,
                             relationship |-> rel ],
                 dice |-> <<>>, dc |-> 0, roll |-> NoCheck, out |-> NoCheck,
                 main_dc |-> 0 ]

\* mechanics_node calls execute_skill_check
SkillCheck ==
    /\ comp.kind = "check"
    /\ comp.out = NoCheck
    /\ \E a \in DieFaces, b \in DieFaces :
        comp' = [comp EXCEPT
                   !.dice = <<a, b>>,
                   !.dc   = skill_check_dc(comp.state),
                   !.roll = skill_check_roll(comp.state, <<a, b>>),
                   !.out  = execute_skill_check(comp.state, <<a, b>>)]
    /\ UNCHANGED main_vars

\* the monolithic loop settles the DC for the same intent
MainLoopDc ==
    /\ comp.kind = "check"
    /\ comp.main_dc = 0
    /\ comp' = [comp EXCEPT !.main_dc =
                  main_loop_dc(comp.state.intent,
                               IF comp.state.intent_context = <<>> THEN DEFAULT_DC
                               ELSE comp.state.intent_context[1],
                               NpcAttributes)]
    /\ UNCHANGED main_vars

NextCheck ==
    \/ SkillCheck
    \/ MainLoopDc

SpecCheck == InitCheck /\ [][NextCheck]_vars

\* ==================================================== component: NPC state
\* update_npc_state applied turn after turn to a timed NPC state.
MaxDuration == 5
MaxTicks == 7

NpcStatuses == { "NORMAL", "SILENT", "VULNERABLE" }

\* a reset that waits for the turn after the duration ran out
update_npc_state_late(current_status, duration) ==
    IF duration <= 0 THEN <<"NORMAL", 0>>
    ELSE <<current_status, duration - 1>>

update_npc_state(current_status, duration) ==
    IF duration <= 0 THEN <<"NORMAL", 0>>
    ELSE LET new_duration == duration - 1
         IN  IF new_duration <= 0 THEN <<"NORMAL", 0>>
             ELSE <<current_status, new_duration>>

InitNpc ==
    /\ Parked
    /\ \E status \in NpcStatuses, d \in (0 - 2) .. MaxDuration :
        comp = [ kind |-> "npc", status |-> status, duration |-> d,
                 status0 |-> status, duration0 |-> d, ticks |-> 0 ]

\* one turn passes
NpcTick ==
    /\ comp.kind = "npc"
    /\ comp.ticks < MaxTicks
    /\ LET r == update_npc_state(comp.status, comp.duration)
       IN  comp' = [comp EXCEPT !.status = r[1], !.duration = r[2],
                                !.ticks = comp.ticks + 1]
    /\ UNCHANGED main_vars

NextNpc == NpcTick

SpecNpc == InitNpc /\ [][NextNpc]_vars

\* ============================================ component: dialogue triggers
\* process_dialogue_triggers, and the generation node built for a character,
\* on characters with several triggers.
GiftTrigger ==
    [ trigger_type    |-> "keyword_match",
      keywords        |-> {"artifact"},
      effects         |-> << [kind |-> "flags", key |-> "gave_artifact"],
                             [kind |-> "inventory.give", item |-> "gold_coin"] >>,
      approval_change |-> 5,
      system_message  |-> <<"Story:", "artifact", "handed", "over">> ]

InsultTrigger ==
    [ trigger_type    |-> "keyword_match",
      id              |-> "insult",
      keywords        |-> {"fool"},
      effects         |-> <<>>,
      approval_change |-> 0 - 3 ]

PotionTrigger ==
    [ trigger_type    |-> "keyword_match",
      keywords        |-> {"potion", "artifact"},
      effects         |-> << [kind |-> "inventory.give", item |-> "healing_potion"] >>,
      description     |-> "shared a potion",
      system_message  |-> <<>> ]

EnterTrigger ==
    [ trigger_type    |-> "on_enter",
      keywords        |-> {"artifact"},
      effects         |-> << [kind |-> "flags", key |-> "entered"] >>,
      approval_change |-> 7,
      system_message  |-> <<"Story:", "entered">> ]

TriggerPool == { GiftTrigger, InsultTrigger, PotionTrigger, EnterTrigger }

\* dialogue_triggers lists of up to three different triggers
TriggerConfigs ==
    { <<>> }
    \cup { <<a>> : a \in TriggerPool }
    \cup { t \in TriggerPool \X TriggerPool : t[1] # t[2] }
    \cup { t \in TriggerPool \X TriggerPool \X TriggerPool :
             t[1] # t[2] /\ t[1] # t[3] /\ t[2] # t[3] }

TriggerInputs ==
    { <<>>, <<"hello">>, <<"you", "fool">>, <<"take", "the", "artifact">>,
      <<"artifact", "and", "potion", "fool">> }

TriggerInventories ==
    { EmptyInventory,
      dict_set(EmptyInventory, "gold_coin", 1),
      dict_set(dict_set(EmptyInventory, "gold_coin", 1), "healing_potion", 2) }

TriggerRelationships == { 0 - 2, 0, 10 }

NoTriggers == [none |-> TRUE]

InitTriggers ==
    /\ Parked
    /\ \E config \in TriggerConfigs, user_input \in TriggerInputs,
          inv \in TriggerInventories, rel \in TriggerRelationships :
        comp = [ kind   |-> "triggers",
                 config |-> config,
                 flags  |-> {},
                 state  |-> [ user_input       |-> user_input,
                              relationship     |-> rel,
                              player_inventory |-> inv,
                              npc_inventory    |-> EmptyInventory,
                              journal_events   |-> <<>>,
                              messages         |-> <<>>,
                              final_response   |-> <<>> ],
                 result |-> NoTriggers,
                 after  |-> NoTriggers,
                 flags_after |-> {} ]

\* mechanics.process_dialogue_triggers on the state's input and inventories
TriggersProcess ==
    /\ comp.kind = "triggers"
    /\ comp.result = NoTriggers
    /\ comp' = [comp EXCEPT !.result =
                  process_dialogue_triggers(comp.state.user_input, comp.config,
                                            comp.flags, comp.state.player_inventory,
                                            comp.state.npc_inventory)]
    /\ UNCHANGED main_vars

\* the generation node of this character runs and its dict is merged
TriggersGeneration ==
    /\ comp.kind = "triggers"
    /\ comp.after = NoTriggers
    /\ \E reply \in Replies :
        comp' = [comp EXCEPT
                   !.after = ApplyUpdate(comp.state,
                                create_generation_node(comp.config, comp.state,
                                                       comp.flags, reply)),
                   !.flags_after = node_triggers(comp.config, comp.state,
                                                 comp.flags).flags]
    /\ UNCHANGED main_vars

NextTriggers ==
    \/ TriggersProcess
    \/ TriggersGeneration

SpecTriggers == InitTriggers /\ [][NextTriggers]_vars

\* ================================================== component: item effect
\* apply_item_effect on item data with and without an effect string.
EffectStrings ==
    { <<"heal:", "2", "d", "4", "+", "2">>,
      <<"heal:", "1", "d", "4", "-", "3">>,
      <<"heal:", "5">>,
      <<"heal:", "x">>,
      <<"heal:">>,
      <<"heal:", "2", "d", "0">>,
      <<"heal:", "0", "d", "0">>,
      <<"buff:", "s">>,
      <<>> }

EffectItems ==
    { [type |-> "misc"], [type |-> "misc", name |-> "Trinket"] }
    \cup { [type |-> "consumable", effect |-> e] : e \in EffectStrings }

NoEffect == [none |-> TRUE]

InitEffect ==
    /\ Parked
    /\ \E item_data \in EffectItems :
        comp = [ kind |-> "effect", item_id |-> "trinket", item_data |-> item_data,
                 rolls |-> <<>>, result |-> NoEffect ]

\* /use reaches apply_item_effect(item_id, item_data)
EffectApply ==
    /\ comp.kind = "effect"
    /\ comp.result = NoEffect
    /\ \E rolls \in EffectRolls :
        comp' = [comp EXCEPT
                   !.rolls = rolls,
                   !.result = apply_item_effect(comp.item_id, comp.item_data, rolls)]
    /\ UNCHANGED main_vars

NextEffect == EffectApply

SpecEffect == InitEffect /\ [][NextEffect]_vars

\* ================================================== component: conditions
\* check_condition on condition strings of every shape and on flags holding
\* booleans, numbers and strings.
ConditionKeys == {"met", "mood"}

ConditionValues == { PyBool(TRUE), PyBool(FALSE), PyInt(1), PyStr("gold") }

ConditionFlags ==
    UNION { [K -> ConditionValues] : K \in SUBSET ConditionKeys }

ConditionLiterals == { "True", "False", "None", "1", "'gold'", "gold" }

ConditionStrings ==
    { <<>>, <<"True">>, <<"true">>, <<"flags.", "met">>,
      <<"flags.", "==", "True">>, <<"flags.", "", "==", "True">>,
      <<"not", "flags.", "met", "==", "True">>,
      <<"flags.", "met", "!=", "gold", "==", "gold">> }
    \cup { <<"flags.", key, op, lit>> :
             key \in ConditionKeys, op \in {"==", "!=", "<=", "is"},
             lit \in ConditionLiterals }
    \cup { <<key, op, lit>> :
             key \in ConditionKeys, op \in {"==", "!="}, lit \in {"True", "gold"} }

NoAnswer == "unasked"

InitCondition ==
    /\ Parked
    /\ \E condition \in ConditionStrings, flag_values \in ConditionFlags :
        comp = [ kind |-> "condition", condition |-> condition,
                 flags |-> flag_values, flags_before |-> flag_values,
                 answer |-> NoAnswer ]

\* a quest stage or a secret asks whether its condition holds
ConditionCheck ==
    /\ comp.kind = "condition"
    /\ comp.answer = NoAnswer
    /\ comp' = [comp EXCEPT !.answer =
                  IF check_condition_values(comp.condition, comp.flags)
                  THEN "True" ELSE "False"]
    /\ UNCHANGED main_vars

NextCondition == ConditionCheck

SpecCondition == InitCondition /\ [][NextCondition]_vars

\* =================================================== component: character
\* Character.render_prompt called again and again on one loaded character.
MaxRenders == 4

RenderBaselines == { 0 - 20, 0, 10, 35 }

RenderScores == { 0 - 100, 0 - 50, 0 - 10, 0, 10, 45, 85, 100 }

\* a render that writes the score into self.data itself
render_prompt_in_place(data, score) ==
    [ data       |-> [data EXCEPT !.relationship = score],
      attributes |-> [data EXCEPT !.relationship = score] ]

\* Character.render_prompt: self.data afterwards, and the attributes dict
\* handed to the loader's render_prompt
Character_render_prompt(data, score) ==
    LET current_attributes == [data EXCEPT !.relationship = score]
    IN  [ data |-> data, attributes |-> current_attributes ]

NoRender == [none |-> TRUE]

InitRender ==
    /\ Parked
    /\ \E baseline \in RenderBaselines :
        comp = [ kind     |-> "character",
                 baseline |-> baseline,
                 data     |-> [ name |-> "Shadowheart", relationship |-> baseline,
                                ability_scores |-> NpcAttributes.ability_scores ],
                 renders  |-> 0,
                 attributes |-> NoRender ]

\* the generation node renders the prompt with the current score
RenderPrompt ==
    /\ comp.kind = "character"
    /\ comp.renders < MaxRenders
    /\ \E score \in RenderScores :
        LET r == Character_render_prompt(comp.data, score)
        IN  comp' = [comp EXCEPT !.data = r.data, !.attributes = r.attributes,
                                 !.renders = @ + 1]
    /\ UNCHANGED main_vars

NextRender == RenderPrompt

SpecRender == InitRender /\ [][NextRender]_vars

\* ============================================= component: message history
\* The generation node on a state whose messages are an earlier conversation.
HistoryContents == { <<"hello">>, <<"Hmph.">>, <<"...">> }

HistoryTurns ==
    { << [role |-> "user", content |-> u],
         [role |-> "assistant", content |-> a] >> :
        u \in HistoryContents, a \in HistoryContents }

\* GameSession.conversation_history after zero, one or two turns
Histories ==
    { <<>> } \cup HistoryTurns \cup { h1 \o h2 : h1 \in HistoryTurns, h2 \in HistoryTurns }

NoHistory == << [none |-> TRUE] >>

InitHistory ==
    /\ Parked
    /\ \E history \in Histories, user_input \in HistoryContents :
        comp = [ kind  |-> "history",
                 state |-> [ messages         |-> add_messages(<<>>, history),
                             user_input       |-> user_input,
                             relationship     |-> 0,
                             player_inventory |-> EmptyInventory,
                             npc_inventory    |-> EmptyInventory,
                             journal_events   |-> <<>>,
                             final_response   |-> <<>> ],
                 sent  |-> NoHistory,
                 out   |-> NoHistory,
                 reply |-> <<>> ]

\* the node calls generate_dialogue and returns its dict
HistoryGenerate ==
    /\ comp.kind = "history"
    /\ comp.sent = NoHistory
    /\ \E reply \in Replies \cup { <<>> } :
        comp' = [comp EXCEPT
                   !.sent  = generation_history(comp.state),
                   !.reply = reply,
                   !.out   = create_generation_node(<<>>, comp.state, {}, reply).messages]
    /\ UNCHANGED main_vars

NextHistory == HistoryGenerate

SpecHistory == InitHistory /\ [][NextHistory]_vars

\* ============================================ component: checkpointed graph
\* GameSession.turn invoking, turn after turn and under one thread_id, the
\* graph that build_graph compiles: with the SqliteSaver checkpointer when the
\* package is installed, without it otherwise.
MaxCheckpointTurns == 3

\* the events the nodes of one turn can produce
TurnEventKinds == { <<>>, <<"check">>, <<"trigger">>, <<"check", "trigger">> }

\* the event texts of one turn; each names the turn that produced it
turn_events(turn, kinds) == [i \in DOMAIN kinds |-> [made |-> turn, kind |-> kinds[i]]]

NoCheckpoint == << [none |-> TRUE] >>

\* graph.invoke(state_payload, config): the journal_events channel the first
\* node sees. With a checkpoint of the thread the payload is written onto the
\* saved channel through its reducer; otherwise onto the empty channel.
invoke_journal_events(saver, checkpoint, payload) ==
    IF saver /\ checkpoint # NoCheckpoint
    THEN merge_events(checkpoint, payload)
    ELSE merge_events(<<>>, payload)

InitCheckpoint ==
    /\ Parked
    /\ \E saver \in BOOLEAN :
        comp = [ kind       |-> "checkpoint",
                 saver      |-> saver,
                 checkpoint |-> NoCheckpoint,
                 journal    |-> <<>>,
                 turn       |-> 0,
                 produced   |-> <<>>,
                 result     |-> <<>> ]

\* one turn(): the payload carries journal_events = [], the nodes' events are
\* merged by the reducer, and every event of the result goes to the journal
CheckpointTurn ==
    /\ comp.kind = "checkpoint"
    /\ comp.turn < MaxCheckpointTurns
    /\ \E kinds \in TurnEventKinds :
        LET produced == turn_events(comp.turn + 1, kinds)
            start    == invoke_journal_events(comp.saver, comp.checkpoint, <<>>)
            result   == merge_events(start, produced)
        IN  comp' = [comp EXCEPT
                       !.turn       = @ + 1,
                       !.produced   = produced,
                       !.result     = result,
                       !.checkpoint = IF comp.saver THEN result ELSE NoCheckpoint,
                       !.journal    = add_entries(@, result, comp.turn)]
    /\ UNCHANGED main_vars

NextCheckpoint == CheckpointTurn

SpecCheckpoint == InitCheckpoint /\ [][NextCheckpoint]_vars

\* ==================================================== component: restart
\* A session is saved, the process ends, and main() starts again: it seeds
\* the inventories and then applies the saved document.
\* what the player can hold when the session is saved: the seed, or what is
\* left of it after potions were used and coins given away
SavedPlayerInventories ==
    { SeedPlayerInventory,
      dict_set(dict_set(EmptyInventory, "healing_potion", 1), "gold_coin", 10),
      dict_set(EmptyInventory, "gold_coin", 10),
      dict_set(EmptyInventory, "gold_coin", 3),
      dict_set(EmptyInventory, "healing_potion", 2),
      EmptyInventory }

\* the inventory list of the character YAML
YamlInventories == { <<>>, <<"healing_potion">>, <<"healing_potion", "sword">> }

\* what the player gave to the NPC before the save
NpcGifts == { <<>>, <<"gold_coin">>, <<"healing_potion">> }

\* load_character: character.inventory.add(item) for every item of the list
RECURSIVE load_inventory(_, _)
load_inventory(items, inv_data) ==
    IF inv_data = <<>> THEN items
    ELSE load_inventory(Inventory_add(items, Head(inv_data), 1).items, Tail(inv_data))

\* init_from_memory: "if saved_inv: inventory.from_dict(saved_inv)"
restore_inventory(current, saved) ==
    IF saved # EmptyInventory THEN saved ELSE current

InitRestart ==
    /\ Parked
    /\ \E player \in SavedPlayerInventories, inv_data \in YamlInventories,
          gifts \in NpcGifts :
        comp = [ kind     |-> "restart",
                 phase    |-> "running",
                 inv_data |-> inv_data,
                 player   |-> player,
                 npc      |-> load_inventory(load_inventory(EmptyInventory, inv_data),
                                             gifts),
                 document |-> NoDocument,
                 saved    |-> NoDocument ]

\* main() saves after the turn and the process ends
RestartSave ==
    /\ comp.kind = "restart"
    /\ comp.phase = "running"
    /\ LET data == build_memory_data(0, <<>>, [status |-> "NORMAL", duration |-> 0],
                                     {}, comp.player, comp.npc, <<>>)
       IN  comp' = [comp EXCEPT !.phase = "saved", !.document = data, !.saved = data]
    /\ UNCHANGED main_vars

\* main() of the next run: seed items, GameSession, init_from_memory
RestartLoad ==
    /\ comp.kind = "restart"
    /\ comp.phase = "saved"
    /\ LET memory_data == comp.document
           seeded_npc  == load_inventory(EmptyInventory, comp.inv_data)
       IN  comp' = [comp EXCEPT
                      !.phase  = "restarted",
                      !.player = restore_inventory(SeedPlayerInventory,
                                                   memory_data.inventory_player),
                      !.npc    = restore_inventory(seeded_npc,
                                                   memory_data.inventory_npc)]
    /\ UNCHANGED main_vars

NextRestart ==
    \/ RestartSave
    \/ RestartLoad

SpecRestart == InitRestart /\ [][NextRestart]_vars

\* ==================================================== component: admin tool
\* The config editor (a streamlit script with its own session state) next to
\* a game process; the two share the character YAML and the save file.
MaxAdminOps == 6

AdminCatalog == { "healing_potion", "sword" }

NoFile == [exists |-> FALSE]

\* list.pop(idx), idx counted from 0
list_pop(lst, idx) ==
    [i \in 1 .. (Len(lst) - 1) |-> IF i <= idx THEN lst[i] ELSE lst[i + 1]]

\* "Add Item": appended unless the item is in the list already
editor_add(inventory_list, item_id) ==
    IF \E i \in DOMAIN inventory_list : inventory_list[i] = item_id
    THEN inventory_list
    ELSE Append(inventory_list, item_id)

\* MemoryManager.load as far as the start of a run goes: defaults when there
\* is no file, the saved score otherwise
game_load(file, default_relationship) ==
    IF ~file.exists
    THEN [source |-> "defaults", relationship_score |-> default_relationship]
    ELSE [source |-> "document", relationship_score |-> file.relationship_score]

InitAdmin ==
    /\ Parked
    /\ \E inv \in { <<>>, <<"healing_potion">> },
          file \in { NoFile, [exists |-> TRUE, relationship_score |-> 7] } :
        comp = [ kind        |-> "admin",
                 yaml        |-> inv,          \* inventory list in the YAML file
                 shown       |-> inv,          \* st.session_state.character_data
                 memory_file |-> file,
                 game        |-> "off",
                 score       |-> 0,            \* the running session's score
                 deleted     |-> FALSE,        \* deleted, and no run started since
                 started     |-> "none",       \* how the first run after it began
                 last_op     |-> "none",
                 ops         |-> 0 ]

AdminStep(next) ==
    /\ comp.kind = "admin"
    /\ comp.ops < MaxAdminOps
    /\ comp' = [next EXCEPT !.ops = comp.ops + 1]
    /\ UNCHANGED main_vars

\* "Remove" next to the item at index idx, then st.rerun()
AdminRemove ==
    \E idx \in 0 .. (Len(comp.shown) - 1) :
        AdminStep([comp EXCEPT !.shown = list_pop(comp.shown, idx),
                               !.last_op = "remove"])

\* "Add Item" with an item of the catalog, then st.rerun()
AdminAdd ==
    \E item_id \in AdminCatalog :
        /\ ~(\E i \in DOMAIN comp.shown : comp.shown[i] = item_id)
        /\ AdminStep([comp EXCEPT !.shown = editor_add(comp.shown, item_id),
                                  !.last_op = "add"])

\* "Save Changes": the session's data is written to the YAML file
AdminSave ==
    /\ comp.kind = "admin"
    /\ AdminStep([comp EXCEPT !.yaml = comp.shown, !.last_op = "save"])

\* "Reset/Delete Save Data": shown while the file exists
AdminDelete ==
    /\ comp.memory_file.exists
    /\ AdminStep([comp EXCEPT !.memory_file = NoFile,
                              !.deleted = TRUE,
                              !.started = "none",
                              !.last_op = "delete"])

\* main() of the game: load, then the loop
GameStart ==
    /\ comp.game = "off"
    /\ LET memory_data == game_load(comp.memory_file, 0)
       IN  AdminStep([comp EXCEPT
                        !.game    = "running",
                        !.score   = memory_data.relationship_score,
                        !.started = IF comp.deleted THEN memory_data.source ELSE @,
                        !.deleted = FALSE])

\* one turn of the running game, and the save that follows it
GameTurn ==
    /\ comp.game = "running"
    /\ AdminStep([comp EXCEPT
                    !.score = comp.score + 1,
                    !.memory_file = [exists |-> TRUE,
                                     relationship_score |-> comp.score + 1]])

\* quit: the save after the loop, and the process ends
GameQuit ==
    /\ comp.game = "running"
    /\ AdminStep([comp EXCEPT
                    !.game = "off",
                    !.memory_file = [exists |-> TRUE,
                                     relationship_score |-> comp.score]])

NextAdmin ==
    \/ AdminRemove
    \/ AdminAdd
    \/ AdminSave
    \/ AdminDelete
    \/ GameStart
    \/ GameTurn
    \/ GameQuit

SpecAdmin == InitAdmin /\ [][NextAdmin]_vars

\* ================================================ component: monolithic loop
\* The while-loop of main.py: one input per iteration, the NPC state checked
\* before the dialogue flow.
MaxLoopInputs == 5

HISTORY_WINDOW == 20

LoopIntents ==
    { [action_type |-> "NONE", difficulty_class |-> 0],
      [action_type |-> "PERSUASION", difficulty_class |-> 15],
      [action_type |-> "ATTACK", difficulty_class |-> 0],
      [action_type |-> "ATTACK", difficulty_class |-> 12] }

LoopDice == { <<1, 1>>, <<10, 10>>, <<20, 20>>, <<20, 1>> }

LoopApprovals == { 0, 5 }

LoopScores == { -20, 0, 99, 100 }

LoopStates ==
    { [status |-> "NORMAL", duration |-> 0],
      [status |-> "SILENT", duration |-> 2],
      [status |-> "VULNERABLE", duration |-> 3] }

NoPlayer == [none |-> TRUE]

LoopPlayers == { NoPlayer, [ability_scores |-> [CHA |-> 14, STR |-> 10, WIS |-> 12]] }

get_ability_for_action(action_type) ==
    CASE action_type = "INSIGHT" -> "WIS"
      [] action_type = "ATTACK"  -> "STR"
      [] OTHER                   -> "CHA"

\* a SILENT branch that counts the turn down twice
silent_decrement_twice(state0) ==
    IF state0.duration - 2 <= 0
    THEN [status |-> "NORMAL", duration |-> 0]
    ELSE [state0 EXCEPT !.duration = @ - 2]

\* the SILENT branch: duration -= 1, NORMAL at zero
silent_decrement(state0) ==
    IF state0.duration - 1 <= 0
    THEN [status |-> "NORMAL", duration |-> 0]
    ELSE [state0 EXCEPT !.duration = @ - 1]

\* a VULNERABLE branch that keeps the status when the duration runs out
vulnerable_decrement_keep(state0) ==
    [state0 EXCEPT !.duration = Max2(@ - 1, 0)]

\* the VULNERABLE branch: duration -= 1, NORMAL at zero
vulnerable_decrement(state0) ==
    IF state0.duration - 1 <= 0
    THEN [status |-> "NORMAL", duration |-> 0]
    ELSE [state0 EXCEPT !.duration = @ - 1]

\* max(-100, min(100, score))
loop_clamp(score) == Max2(-100, Min2(100, score))

\* One free-text iteration. loop is [npc_state, score, history, player];
\* history is len(conversation_history). The result carries the new values and
\* what the iteration did: the calls made, whether dice were rolled, the score
\* right after the check and the state a critical roll set.
main_loop_turn(loop, intent, bonus, dice, approval) ==
    IF loop.npc_state.status = "SILENT" /\ loop.npc_state.duration > 0
    THEN [ npc_state |-> silent_decrement(loop.npc_state),
           score |-> loop.score, history |-> loop.history,
           mode |-> "silent", intent_calls |-> 0, dialogue_calls |-> 0,
           rolled |-> FALSE, check |-> "none", checked_score |-> loop.score,
           set |-> "none" ]
    ELSE
      LET auto_success == loop.npc_state.status = "VULNERABLE"
                          /\ loop.npc_state.duration > 0
          state1 == IF auto_success THEN vulnerable_decrement(loop.npc_state)
                    ELSE loop.npc_state
          action_type == intent.action_type
          dc == main_loop_dc(action_type, intent.difficulty_class, NpcAttributes)
          needs_check == action_type # "NONE" /\ dc > 0
          ability_name == get_ability_for_action(action_type)
          can_roll == /\ needs_check /\ ~auto_success
                      /\ loop.player # NoPlayer
                      /\ ability_name \in DOMAIN loop.player.ability_scores
          modifier == IF can_roll
                      THEN calculate_ability_modifier(
                               loop.player.ability_scores[ability_name]) + bonus
                      ELSE 0
          result == roll_d20(dc, modifier,
                             determine_roll_type(action_type, loop.score), dice)
          check == IF ~needs_check THEN "none"
                   ELSE IF auto_success THEN "CRITICAL_SUCCESS_AUTO"
                   ELSE IF can_roll THEN result.result_type
                   ELSE "none"
          score1 == IF needs_check /\ auto_success
                    THEN loop_clamp(loop.score + 1) ELSE loop.score
          set == IF can_roll /\ result.result_type = "CRITICAL_SUCCESS"
                 THEN "VULNERABLE"
                 ELSE IF can_roll /\ result.result_type = "CRITICAL_FAILURE"
                 THEN "SILENT" ELSE "none"
          state2 == CASE set = "VULNERABLE" -> [status |-> "VULNERABLE", duration |-> 3]
                      [] set = "SILENT"     -> [status |-> "SILENT", duration |-> 2]
                      [] OTHER              -> state1
          score2 == IF approval # 0 THEN loop_clamp(score1 + approval) ELSE score1
          history2 == Min2(loop.history + 2, HISTORY_WINDOW)
      IN  [ npc_state |-> state2, score |-> score2, history |-> history2,
            mode |-> IF auto_success THEN "vulnerable" ELSE "normal",
            intent_calls |-> 1, dialogue_calls |-> 1,
            rolled |-> can_roll, check |-> check, checked_score |-> score1,
            set |-> set ]

NoTurn == [mode |-> "none"]

InitLoop ==
    /\ Parked
    /\ \E state0 \in LoopStates, score \in LoopScores, player \in LoopPlayers,
          history \in {0, HISTORY_WINDOW} :
        comp = [ kind      |-> "loop",
                 npc_state |-> state0,
                 score     |-> score,
                 history   |-> history,
                 player    |-> player,
                 inputs    |-> 0,
                 before    |-> NoTurn,      \* the values the last turn started from
                 last      |-> NoTurn,      \* what the last free-text turn did
                 origin    |-> IF state0.status = "NORMAL" THEN "none"
                               ELSE state0.status,
                 \* free-text turns since the state of origin was set, and how
                 \* many of them ran under that state
                 after     |-> 0,
                 covered   |-> 0 ]

\* a free-text input
LoopTurn ==
    /\ comp.kind = "loop"
    /\ comp.inputs < MaxLoopInputs
    /\ \E intent \in LoopIntents, bonus \in {0, 2}, dice \in LoopDice,
          approval \in LoopApprovals :
        LET r == main_loop_turn(comp, intent, bonus, dice, approval)
            under == \/ comp.origin = "SILENT" /\ r.mode = "silent"
                     \/ comp.origin = "VULNERABLE" /\ r.mode = "vulnerable"
        IN  comp' = [comp EXCEPT
                       !.npc_state = r.npc_state,
                       !.score     = r.score,
                       !.history   = r.history,
                       !.inputs    = @ + 1,
                       !.before    = [mode |-> "turn", npc_state |-> comp.npc_state,
                                      score |-> comp.score, history |-> comp.history],
                       !.last      = r,
                       !.origin    = IF r.set # "none" THEN r.set ELSE @,
                       !.after     = IF r.set # "none" THEN 0 ELSE @ + 1,
                       !.covered   = IF r.set # "none" THEN 0
                                     ELSE IF under THEN @ + 1 ELSE @]
    /\ UNCHANGED main_vars

\* an input starting with '/': handle_command, then continue
LoopCommand ==
    /\ comp.kind = "loop"
    /\ comp.inputs < MaxLoopInputs
    /\ comp' = [comp EXCEPT !.inputs = @ + 1]
    /\ UNCHANGED main_vars

NextLoop ==
    \/ LoopTurn
    \/ LoopCommand

SpecLoop == InitLoop /\ [][NextLoop]_vars

\* ================================================== component: graph run
\* One graph.invoke of the graph build_graph compiles, from any input state,
\* with every node returning; only the channels the routers read are kept.
MaxNodeRuns == 6

\* intent values a caller can put into the input state
InputStateIntents == {"pending", "chat", "ATTACK", "command_done", "gift_given", "STEALTH"}

\* the intents input_node returns
InputNodeIntents == {"pending", "command_done", "gift_given", "item_used"}

\* a graph whose mechanics node leads back to the DM node
graph_edge_back_to_dm(node, st) ==
    CASE node = "__start__"            -> "input_processing"
      [] node = "input_processing"     -> route_after_input(st)
      [] node = "dm_analysis"          -> route_after_dm(st)
      [] node = "mechanics_processing" -> "dm_analysis"
      [] OTHER                         -> "__end__"

\* build_graph: the node that follows node when it has left the state st
graph_edge(node, st) ==
    CASE node = "__start__"            -> "input_processing"
      [] node = "input_processing"     -> route_after_input(st)
      [] node = "dm_analysis"          -> route_after_dm(st)
      [] node = "mechanics_processing" -> "generation"
      [] node = "generation"           -> "__end__"

InitGraph ==
    /\ Parked
    /\ \E intent \in InputStateIntents, probing \in BOOLEAN :
        LET st == [ intent |-> intent, is_probing_secret |-> probing,
                    intent_context |-> <<>> ]
        IN  comp = [ kind  |-> "graph",
                     given |-> st,
                     state |-> st,
                     pc    |-> graph_edge("__start__", st),
                     ran   |-> <<>> ]

\* a node has run and returned upd: the update is applied, the edge is taken
GraphStep(node, upd) ==
    /\ comp.kind = "graph"
    /\ comp.pc = node
    /\ Len(comp.ran) < MaxNodeRuns
    /\ LET s1 == ApplyUpdate(comp.state, upd)
       IN  comp' = [comp EXCEPT !.state = s1,
                                !.pc    = graph_edge(node, s1),
                                !.ran   = Append(@, node)]
    /\ UNCHANGED main_vars

GraphInput ==
    /\ comp.kind = "graph"
    /\ \E intent \in InputNodeIntents :
        GraphStep("input_processing", [intent |-> intent])

GraphDm ==
    /\ comp.kind = "graph"
    /\ \E a \in AnalysisActionTypes, d \in AnalysisDCs :
        GraphStep("dm_analysis",
                  dm_node(comp.state,
                          analyze_intent([action_type |-> a, difficulty_class |-> d])))

GraphMechanics ==
    /\ comp.kind = "graph"
    /\ GraphStep("mechanics_processing", EmptyDict)

GraphGeneration ==
    /\ comp.kind = "graph"
    /\ GraphStep("generation", EmptyDict)

NextGraph ==
    \/ GraphInput
    \/ GraphDm
    \/ GraphMechanics
    \/ GraphGeneration

\* the executor runs the node the last edge led to
SpecGraph == InitGraph /\ [][NextGraph]_vars /\ WF_vars(NextGraph)

\* ================================================================ claims
InGraph == {"input_processing", "dm_analysis", "mechanics_processing", "generation"}

TurnEnded == {"__end__", "raised", "interrupted"}

Nodes(seq) == { seq[i] : i \in DOMAIN seq }

\* C1: after any sequence of turns the relationship score lies in [-100, 100].
C1_RelationshipClamped ==
    relationship_score >= -100 /\ relationship_score <= 100

\* C2: a turn whose intent after the input node is "command_done" ends right
\* there: no DM, mechanics or generation node runs and no model is called.
C2_CommandDoneEndsTurn ==
    (pc \in InGraph \cup TurnEnded /\ input_intent = "command_done")
        => /\ pc = "__end__"
           /\ ran = <<"input_processing">>
           /\ state.intent = "command_done"
           /\ sent = NoCall
           /\ ~dm_failed
           /\ checks = 0

C2_Witness ==
    /\ pc = "__end__"
    /\ input_intent = "command_done"
    /\ state.user_input = <<"/give", "sword">>
    /\ state.final_response = SystemDontHave("sword")

\* C3: a turn whose intent is "gift_given" or "item_used" passes through the
\* DM node with its intent unchanged, is routed to generation, and never runs
\* a skill check.
C3_GiftReachesGeneration ==
    (pc \in InGraph \cup TurnEnded /\ input_intent \in {"gift_given", "item_used"})
        => /\ state.intent = input_intent
           /\ checks = 0
           /\ ~dm_failed
           /\ pc # "mechanics_processing"
           /\ "mechanics_processing" \notin Nodes(ran)
           /\ (pc = "dm_analysis" => ran = <<"input_processing">>)
           /\ (pc = "generation" => ran = <<"input_processing", "dm_analysis">>)
           /\ (pc \in TurnEnded
                 => ran = <<"input_processing", "dm_analysis", "generation">>)

C3_Witness ==
    /\ pc = "__end__"
    /\ input_intent = "gift_given"
    /\ state.intent = "gift_given"
    /\ ran = <<"input_processing", "dm_analysis", "generation">>
    /\ sent # NoCall

C6_ErrorsNeverForwarded ==
    sent # NoCall => \A i \in DOMAIN sent : sent[i].content \notin rejected

\* C7: a failing slash-command leaves both inventories, the relationship
\* score, the flags and the journal exactly as they were before the turn.
C7_FailedCommandChangesNothing ==
    (pc = "prompt" /\ last.outcome = "command_done")
        => /\ player_inventory = last.pre.inventory_player
           /\ npc_inventory = last.pre.inventory_npc
           /\ relationship_score = last.pre.relationship_score
           /\ flags = last.pre.flags
           /\ journal = last.pre.journal

C7_Witness ==
    /\ pc = "prompt"
    /\ last.outcome = "command_done"
    /\ Len(conversation_history) >= 2
    /\ conversation_history[Len(conversation_history)].content
           = SystemDontHave("sword")
    /\ player_inventory["healing_potion"] > 0

\* C8: when the intent analyzer fails the turn is not aborted: the intent falls
\* back to NONE/chat with DC 0, no skill check is rolled, and the turn goes on
\* to generation.
C8_AnalyzerFailureFallsBack ==
    dm_failed
        => /\ pc \in {"generation", "__end__"}
           /\ state.intent \in {"NONE", "chat"}
           /\ state.intent_context = <<0>>
           /\ checks = 0

\* C9: a turn in which graph.invoke raised is a no-op: relationship, NPC state,
\* flags, inventories, history and journal are what they were before it.
C9_GraphErrorIsNoOp ==
    (pc = "prompt" /\ last.outcome = "graph_error") => MemoryData = last.pre

AfterInputNode(command) ==
    /\ pc \in {"dm_analysis", "__end__"}
    /\ ran = <<"input_processing">>
    /\ Len(state.user_input) > 1
    /\ lower(state.user_input[1]) = command

\* C11: /give <item> with the item held moves exactly one unit of it from the
\* player to the NPC, changes no other quantity, adds exactly 2 to the
\* relationship, appends exactly one journal event and sets intent gift_given.
C11_GiveMovesOneUnit ==
    (/\ AfterInputNode("/give")
     /\ inv_get(last.pre.inventory_player, state.user_input[2]) >= 1)
        => LET item == state.user_input[2]
               pre  == last.pre
           IN  /\ inv_get(state.player_inventory, item)
                    = inv_get(pre.inventory_player, item) - 1
               /\ inv_get(state.npc_inventory, item)
                    = inv_get(pre.inventory_npc, item) + 1
               /\ \A i \in DOMAIN RegistryItems \ {item} :
                    /\ inv_get(state.player_inventory, i)
                         = inv_get(pre.inventory_player, i)
                    /\ inv_get(state.npc_inventory, i)
                         = inv_get(pre.inventory_npc, i)
               /\ state.relationship = pre.relationship_score + 2
               /\ Len(state.journal_events) = 1
               /\ state.intent = "gift_given"
               /\ pc = "dm_analysis"

C11_Witness ==
    /\ AfterInputNode("/give")
    /\ state.intent = "gift_given"
    /\ last.pre.inventory_npc = EmptyInventory
    /\ state.npc_inventory = [healing_potion |-> 1]
    /\ state.player_inventory = [healing_potion |-> 1, gold_coin |-> 10]

\* C12: /use <item> with the item held removes exactly one unit of it from the
\* player inventory (the entry is gone when it reaches zero), appends one
\* journal event carrying the computed effect, sets intent item_used, and
\* leaves the NPC inventory, the relationship and the flags unchanged.
C12_UseConsumesOneUnit ==
    (/\ AfterInputNode("/use")
     /\ inv_get(last.pre.inventory_player, state.user_input[2]) >= 1)
        => LET item == state.user_input[2]
               pre  == last.pre
           IN  /\ inv_get(state.player_inventory, item)
                    = inv_get(pre.inventory_player, item) - 1
               /\ (pre.inventory_player[item] = 1
                     => item \notin DOMAIN state.player_inventory)
               /\ \A i \in DOMAIN state.player_inventory :
                    state.player_inventory[i] >= 1
               /\ \A i \in DOMAIN RegistryItems \ {item} :
                    inv_get(state.player_inventory, i)
                      = inv_get(pre.inventory_player, i)
               /\ Len(state.journal_events) = 1
               /\ \E rolls \in EffectRolls :
                    state.journal_events[1]
                      = <<"Player", "used", item>>
                          \o apply_item_effect(item, registry_get(item), rolls).message
               /\ state.intent = "item_used"
               /\ state.npc_inventory = pre.inventory_npc
               /\ state.relationship = pre.relationship_score
               /\ flags = pre.flags

C12_Witness ==
    /\ AfterInputNode("/use")
    /\ state.intent = "item_used"
    /\ last.pre.inventory_player["healing_potion"] = 1
    /\ "healing_potion" \notin DOMAIN state.player_inventory
    /\ state.journal_events
         = << <<"Player", "used", "healing_potion", "restores", "10", "HP.">> >>

\* C13: every player-to-NPC transfer through Inventory objects (the
\* inventory.give trigger effect and the legacy /give handler) either changes
\* neither inventory, because the player lacks the item, or takes exactly one
\* unit from the player and gives exactly one to the NPC.
C13_TransferIsAtomic ==
    (comp.kind = "inventory" /\ comp.last.op \in {"trigger_give", "legacy_give"})
        => LET item == comp.last.item
               pb   == comp.last.player_before
               nb   == comp.last.npc_before
           IN  \/ /\ inv_get(pb, item) = 0
                  /\ comp.player = pb
                  /\ comp.npc = nb
               \/ /\ inv_get(pb, item) >= 1
                  /\ inv_get(comp.player, item) = inv_get(pb, item) - 1
                  /\ inv_get(comp.npc, item) = inv_get(nb, item) + 1

\* C14: whenever the generation node has run, the has-healing-potion flag and
\* the inventory listing it handed to render_prompt are those of the NPC
\* inventory as it stands after this turn's slash command and dialogue
\* triggers; the flag is true exactly when that inventory holds at least one
\* healing_potion.
C14_PromptReflectsNpcInventory ==
    (pc = "__end__" /\ prompt # NoPrompt)
        => /\ prompt.has_healing_potion
                <=> inv_get(state.npc_inventory, "healing_potion") >= 1
           /\ prompt.inventory_items
                = format_inventory_dict_to_display_list(state.npc_inventory)

\* a gift of the player's potion reached generation, and so did a trigger
\* transfer of a gold coin
C14_Witness ==
    /\ pc = "__end__"
    /\ prompt # NoPrompt
    /\ prompt.has_healing_potion
    /\ state.intent = "gift_given"
    /\ <<"healing_potion">> \in prompt.inventory_items
    /\ <<"gold_coin">> \in prompt.inventory_items

\* C15: MemoryManager.load never raises. A missing, unreadable, empty, corrupt
\* or wrongly-shaped document gives the full default state with the caller's
\* baseline relationship; a bare array gives the default state with history
\* equal to the array; a mapping keeps its own entries, gets every absent
\* default key filled in, and has a missing or null relationship score
\* replaced by the baseline.
C15_LoadNeverRaises ==
    (comp.kind = "memory" /\ comp.loaded # NoLoad)
        => LET file == comp.loaded.from
               dflt == default_state(comp.loaded.baseline)
               r    == comp.loaded.result
               tag  == IF file.exists /\ file.readable THEN file.content.tag ELSE "none"
           IN  /\ ~r.raised
               /\ tag \notin {"list", "dict"} => r.value = dflt
               /\ tag = "list" => r.value = [dflt EXCEPT !.history = file.content.items]
               /\ tag = "dict" =>
                    LET data == file.content.value
                    IN  /\ DOMAIN r.value = DOMAIN data \cup DefaultKeys
                        /\ \A k \in DefaultKeys \ DOMAIN data : r.value[k] = dflt[k]
                        /\ \A k \in DOMAIN data \ {"relationship_score"} :
                              r.value[k] = data[k]
                        /\ r.value.relationship_score =
                              IF "relationship_score" \in DOMAIN data
                                 /\ data.relationship_score # JNull
                              THEN data.relationship_score
                              ELSE JNum(comp.loaded.baseline)

\* a corrupt document was loaded
C15_Witness ==
    /\ comp.kind = "memory"
    /\ comp.loaded # NoLoad
    /\ comp.loaded.from.exists
    /\ comp.loaded.from.readable
    /\ comp.loaded.from.content.tag = "corrupt"
    /\ comp.loaded.baseline = 10
    /\ comp.loaded.result = Returned(default_state(10))

\* C16: for every DC, modifier and roll type, a used roll of 20 is a critical
\* success with success true, a used roll of 1 is a critical failure with
\* success false, and for a used roll from 2 to 19 the check succeeds exactly
\* when used roll + modifier >= DC.
C16_RollClassification ==
    (comp.kind = "dice" /\ comp.result # NoRoll)
        => LET r == comp.result
           IN  /\ r.raw_roll = 20
                    => r.result_type = "CRITICAL_SUCCESS" /\ r.is_success
               /\ r.raw_roll = 1
                    => r.result_type = "CRITICAL_FAILURE" /\ ~r.is_success
               /\ r.raw_roll \in 2..19
                    => /\ r.is_success <=> r.raw_roll + comp.modifier >= comp.dc
                       /\ r.result_type = IF r.is_success THEN "SUCCESS" ELSE "FAILURE"

\* a natural 20 whose total misses the DC, under disadvantage
C16_Witness ==
    /\ comp.kind = "dice"
    /\ comp.result # NoRoll
    /\ comp.roll_type = "disadvantage"
    /\ comp.result.raw_roll = 20
    /\ comp.result.total < comp.dc
    /\ comp.result.is_success

\* C17: roll_d20 makes two rolls and uses the higher in advantage mode, two
\* rolls and uses the lower in disadvantage mode, one roll in normal mode; the
\* used roll is one of the reported rolls and every roll is from 1 to 20.
C17_RollCounts ==
    (comp.kind = "dice" /\ comp.result # NoRoll)
        => LET r  == comp.result
               rt == normalize_roll_type(comp.roll_type)
           IN  /\ rt = "advantage"
                    => /\ Len(r.rolls) = 2
                       /\ r.raw_roll >= r.rolls[1]
                       /\ r.raw_roll >= r.rolls[2]
               /\ rt = "disadvantage"
                    => /\ Len(r.rolls) = 2
                       /\ r.raw_roll <= r.rolls[1]
                       /\ r.raw_roll <= r.rolls[2]
               /\ rt = "normal" => Len(r.rolls) = 1
               /\ \E i \in DOMAIN r.rolls : r.rolls[i] = r.raw_roll
               /\ \A i \in DOMAIN r.rolls : r.rolls[i] \in 1..20

\* an advantage roll, asked for in upper case, whose second die is the higher
C17_Witness ==
    /\ comp.kind = "dice"
    /\ comp.result # NoRoll
    /\ comp.roll_type = "ADVANTAGE"
    /\ Len(comp.result.rolls) = 2
    /\ comp.result.rolls[1] < comp.result.rolls[2]
    /\ comp.result.raw_roll = comp.result.rolls[2]

\* C18: after any sequence of add_entry calls on a fresh journal, the journal
\* holds at most 50 entries, and they are exactly the most recently added
\* ones in insertion order.
C18_JournalKeepsLastFifty ==
    comp.kind = "journal"
        => LET n == Len(comp.added)
               k == IF n < 50 THEN n ELSE 50
           IN  /\ Len(comp.entries) <= 50
               /\ comp.entries = SubSeq(comp.added, n - k + 1, n)

\* 55 adds: the last 50 are left, the first 5 are gone
C18_Witness ==
    /\ comp.kind = "journal"
    /\ Len(comp.added) = 55
    /\ Len(comp.entries) = 50
    /\ comp.entries[1] = comp.added[6]
    /\ comp.entries[50] = comp.added[55]

\* C19: Inventory.add of a non-stackable item that is already held returns
\* false and leaves its quantity at 1; add of a stackable item stores
\* min(current + qty, max_stack); and after any sequence of add and remove
\* calls on an empty inventory every stored quantity is at least 1 and at most
\* the item's max stack.
C19_AddRespectsStacking ==
    comp.kind = "inventory"
        => LET op     == comp.last
               before == op.player_before
           IN  /\ (op.op = "add" /\ ~is_stackable(op.item) /\ op.item \in DOMAIN before)
                    => /\ ~op.ok
                       /\ comp.player = before
                       /\ comp.player[op.item] = 1
               /\ (op.op = "add" /\ is_stackable(op.item) /\ op.qty > 0)
                    => /\ op.ok
                       /\ comp.player[op.item]
                            = Min2(inv_get(before, op.item) + op.qty,
                                   get_max_stack(op.item))
               /\ \A inv \in {comp.player, comp.npc} :
                    \A item \in DOMAIN inv :
                        inv[item] >= 1 /\ inv[item] <= get_max_stack(item)

\* 150 healing potions added to a stack whose limit is 99, with a sword held
C19_Witness ==
    /\ comp.kind = "inventory"
    /\ comp.last.op = "add"
    /\ comp.last.item = "healing_potion"
    /\ comp.last.qty = 150
    /\ comp.last.ok
    /\ comp.player = [healing_potion |-> 99, sword |-> 1]

\* C20: for every quest, check_quests reports the last stage in list order
\* whose condition holds, with the completed flag and the status of that
\* stage; a quest none of whose stage conditions holds is omitted.
C20_ReportsLastMatchingStage ==
    (comp.kind = "quest" /\ comp.active_quests # NoQuests)
        => \A q \in DOMAIN comp.quests :
             LET quest    == comp.quests[q]
                 matching == { i \in DOMAIN quest.stages :
                                 check_condition(stage_condition(quest.stages[i]),
                                                 comp.flags) }
                 reports  == { r \in DOMAIN comp.active_quests :
                                 comp.active_quests[r].id = quest.id }
             IN  IF matching = {}
                 THEN reports = {}
                 ELSE LET last_i == CHOOSE i \in matching : \A j \in matching : j <= i
                          stage  == quest.stages[last_i]
                      IN  /\ Cardinality(reports) = 1
                          /\ \A r \in reports :
                               /\ comp.active_quests[r].stage_id = stage.id
                               /\ comp.active_quests[r].status = stage_status_of(stage)
                               /\ comp.active_quests[r].completed
                                    <=> stage_status_of(stage) = "COMPLETED"

\* C21: get_relationship_status maps every integer score to exactly one of
\* six tiers, with the boundaries >= 81 Devoted, 41..80 Trusting, 11..40
\* Friendly, -9..10 Neutral, -49..-10 Negative, <= -50 Hostile, and the static
\* module's get_relationship_status returns the same tier for every score.
C21_RelationshipTiers ==
    comp.kind = "status"
        => LET sc == comp.score
               expected == CASE sc >= 81             -> "Devoted"
                             [] sc >= 41 /\ sc <= 80   -> "Trusting"
                             [] sc >= 11 /\ sc <= 40   -> "Friendly"
                             [] sc >= -9 /\ sc <= 10   -> "Neutral"
                             [] sc >= -49 /\ sc <= -10 -> "Negative"
                             [] sc <= -50            -> "Hostile"
           IN  /\ comp.loader # NoTier => comp.loader = expected
               /\ comp.static # NoTier => comp.static = expected
               /\ (comp.loader # NoTier /\ comp.static # NoTier)
                    => comp.loader = comp.static

\* the boundary score 81, asked of both functions
C21_Witness ==
    /\ comp.kind = "status"
    /\ comp.score = 81
    /\ comp.loader = "Devoted"
    /\ comp.static = "Devoted"

\* C22: parse_ai_response returns as approval the value of the last
\* [APPROVAL: N] tag of the reply, clamped to [-5, 5], or 0 when the reply has
\* no such tag, and the returned visible text contains no approval tag. The
\* reply is read with its [THOUGHT] blocks set aside, as the spec has them
\* extracted first.
C22_LastApprovalWinsAndTagsStripped ==
    (comp.kind = "engine" /\ comp.parsed # NoParse)
        => LET spoken == strip_thought(comp.raw)
               tags   == approval_matches(spoken)
               n      == IF tags = {} THEN 0
                         ELSE signed_int(spoken[last_of(tags) + 1])
           IN  /\ comp.parsed.approval = (IF n > 5 THEN 5 ELSE IF n < -5 THEN -5 ELSE n)
               /\ approval_matches(comp.parsed.text) = {}

\* C23: execute_skill_check rolls with the roll type determined from intent
\* and relationship, always returns at least one journal line, and returns a
\* relationship delta equal to the action's fixed penalty (DECEPTION -3,
\* PERSUASION -1, INTIMIDATION -5, ATTACK -10, any other action 0) when the
\* check fails, critical failure included, and 0 when it succeeds.
C23_SkillCheckPenalty ==
    (comp.kind = "check" /\ comp.out # NoCheck)
        => LET intent == comp.state.intent
               rel    == comp.state.relationship
               rt     == determine_roll_type(intent, rel)
               penalty == CASE intent = "DECEPTION"    -> -3
                            [] intent = "PERSUASION"   -> -1
                            [] intent = "INTIMIDATION" -> -5
                            [] intent = "ATTACK"       -> -10
                            [] OTHER                   -> 0
           IN  /\ Len(comp.roll.rolls) = (IF rt = "normal" THEN 1 ELSE 2)
               /\ comp.roll.raw_roll = pick_roll(rt, comp.dice)
               /\ Len(comp.out.journal_events) >= 1
               /\ comp.out.relationship_delta
                    = (IF comp.roll.is_success THEN 0 ELSE penalty)

\* a failed ATTACK, by a natural 1, costs ten points
C23_Witness ==
    /\ comp.kind = "check"
    /\ comp.out # NoCheck
    /\ comp.state.intent = "ATTACK"
    /\ comp.roll.result_type = "CRITICAL_FAILURE"
    /\ comp.out.relationship_delta = -10

\* C24: for every DECEPTION, PERSUASION or INTIMIDATION check the DC the roll
\* is compared against is 10 + the NPC's Wisdom modifier, whatever DC the
\* analyzer proposed; for every other action type the analyzer's DC is used.
C24_PassiveDcOverrulesAnalyzer ==
    (comp.kind = "check" /\ comp.out # NoCheck)
        => LET intent == comp.state.intent
               wis_modifier == calculate_ability_modifier(NpcAttributes.ability_scores.WIS)
           IN  IF intent \in {"DECEPTION", "PERSUASION", "INTIMIDATION"}
               THEN comp.dc = 10 + wis_modifier
               ELSE comp.state.intent_context # <<>> /\ comp.state.intent_context[1] > 0
                        => comp.dc = comp.state.intent_context[1]

\* C25: for PERSUASION and DECEPTION the roll modifier is relationship // 20,
\* the quotient rounded downward, so every 20 points in either direction
\* shift the roll by 1; for every other action type the modifier is 0.
C25_RelationshipModifier ==
    (comp.kind = "check" /\ comp.out # NoCheck)
        => LET rel == comp.state.relationship
               modifier == comp.roll.total - comp.roll.raw_roll
           IN  IF comp.state.intent \in {"PERSUASION", "DECEPTION"}
               THEN 20 * modifier <= rel /\ rel < 20 * modifier + 20
               ELSE modifier = 0

\* PERSUASION at relationship 40 rolls with +2
C25_Witness ==
    /\ comp.kind = "check"
    /\ comp.out # NoCheck
    /\ comp.state.intent = "PERSUASION"
    /\ comp.state.relationship = 40
    /\ comp.dice = <<5, 10>>
    /\ comp.roll.raw_roll = 10
    /\ comp.roll.total = 12

\* C26: determine_roll_type gives advantage exactly when the action is
\* PERSUASION or DECEPTION and the relationship is >= 30; otherwise
\* disadvantage exactly when the relationship is <= -20, for any action;
\* otherwise normal.
C26_RollTypeTable ==
    (comp.kind = "check" /\ comp.out # NoCheck)
        => LET rel == comp.state.relationship
               adv == comp.state.intent \in {"PERSUASION", "DECEPTION"} /\ rel >= 30
               dis == rel <= -20
               a   == comp.dice[1]
               b   == comp.dice[2]
           IN  /\ ~(adv /\ dis)
               /\ adv => /\ Len(comp.roll.rolls) = 2
                         /\ comp.roll.raw_roll = (IF a >= b THEN a ELSE b)
               /\ (~adv /\ dis) => /\ Len(comp.roll.rolls) = 2
                                   /\ comp.roll.raw_roll = (IF a <= b THEN a ELSE b)
               /\ (~adv /\ ~dis) => /\ Len(comp.roll.rolls) = 1
                                    /\ comp.roll.raw_roll = a

\* an ATTACK at relationship 40 rolls one die, the lower-valued first one
C26_Witness ==
    /\ comp.kind = "check"
    /\ comp.out # NoCheck
    /\ comp.state.intent = "ATTACK"
    /\ comp.state.relationship = 40
    /\ comp.dice = <<5, 19>>
    /\ comp.roll.rolls = <<5>>

\* C27: a tick of update_npc_state takes a duration above 1 down by one and
\* keeps the status, and takes any other duration to (NORMAL, 0); so once at
\* least one tick and at least as many ticks as the starting duration have
\* passed the state is (NORMAL, 0) and stays there, and no tick ever returns a
\* negative duration.
C27_Tick ==
    comp.kind = "npc" =>
        /\ comp.duration > 1 =>
              /\ comp'.duration = comp.duration - 1
              /\ comp'.status = comp.status
        /\ comp.duration <= 1 =>
              /\ comp'.duration = 0
              /\ comp'.status = "NORMAL"

C27_Settled ==
    comp.kind = "npc" =>
        /\ comp.ticks >= 1 => comp.duration >= 0
        /\ (comp.ticks >= 1 /\ comp.ticks >= comp.duration0) =>
              /\ comp.status = "NORMAL"
              /\ comp.duration = 0
        /\ (comp.ticks < comp.duration0) =>
              /\ comp.status = comp.status0
              /\ comp.duration = comp.duration0 - comp.ticks

C27_NpcStateRunsOut == [][C27_Tick]_vars /\ []C27_Settled

\* a SILENT state of three turns is NORMAL with duration 0 after the third
\* tick
C27_Witness ==
    /\ comp.kind = "npc"
    /\ comp.status0 = "SILENT"
    /\ comp.duration0 = 3
    /\ comp.ticks = 3
    /\ comp.status = "NORMAL"
    /\ comp.duration = 0

\* C28: Inventory.remove returns false and leaves the inventory as it was when
\* the item is absent or fewer than qty units are held; when it returns true it
\* has taken exactly qty units from that item, deleted the entry if nothing is
\* left, and touched no other entry.
C28_RemoveAllOrNothing ==
    (comp.kind = "inventory" /\ comp.last.op = "remove") =>
        LET before == comp.last.player_before
            item   == comp.last.item
            qty    == comp.last.qty
        IN  /\ (item \notin DOMAIN before \/ before[item] < qty) => ~comp.last.ok
            /\ ~comp.last.ok => comp.player = before
            /\ comp.last.ok =>
                  /\ item \in DOMAIN before
                  /\ qty >= 1
                  /\ before[item] >= qty
                  /\ DOMAIN comp.player =
                        IF before[item] = qty THEN DOMAIN before \ {item}
                        ELSE DOMAIN before
                  /\ item \in DOMAIN comp.player =>
                        comp.player[item] = before[item] - qty
                  /\ \A other \in DOMAIN before \ {item} :
                        comp.player[other] = before[other]
            /\ comp.npc = comp.last.npc_before

\* the last arrow is removed while a sword stays in the inventory
C28_Witness ==
    /\ comp.kind = "inventory"
    /\ comp.last.op = "remove"
    /\ comp.last.ok
    /\ comp.last.item = "arrow"
    /\ comp.last.qty = 1
    /\ DOMAIN comp.last.player_before = {"arrow", "sword"}
    /\ DOMAIN comp.player = {"sword"}

\* C29: process_dialogue_triggers returns one journal entry for each trigger
\* of type keyword_match one of whose keywords occurs in the input, and a
\* relationship delta that is the sum of those triggers' approval_change
\* (nothing and 0 when none matches); the generation node leaves the
\* relationship at its old value plus that sum and leaves in the state the
\* flags and the two inventories as the triggers changed them.
MatchedTriggers(config, user_input) ==
    { i \in DOMAIN config :
        /\ user_input # <<>>
        /\ config[i].trigger_type = "keyword_match"
        /\ \E kw \in config[i].keywords, j \in DOMAIN user_input : user_input[j] = kw }

RECURSIVE SumApproval(_, _)
SumApproval(config, idx) ==
    IF idx = {} THEN 0
    ELSE LET i == CHOOSE i \in idx : TRUE
             change == IF "approval_change" \in DOMAIN config[i]
                       THEN config[i].approval_change ELSE 0
         IN  change + SumApproval(config, idx \ {i})

C29_TriggerDeltaIsSum ==
    comp.kind = "triggers" =>
        LET matched == MatchedTriggers(comp.config, comp.state.user_input)
            total   == SumApproval(comp.config, matched)
            gave(item) ==
                \E i \in matched : \E e \in DOMAIN comp.config[i].effects :
                    /\ comp.config[i].effects[e].kind = "inventory.give"
                    /\ comp.config[i].effects[e].item = item
        IN  /\ comp.result # NoTriggers =>
                  /\ Len(comp.result.journal_entries) = Cardinality(matched)
                  /\ comp.result.relationship_delta = total
            /\ comp.after # NoTriggers =>
                  /\ comp.after.relationship = comp.state.relationship + total
                  /\ Len(comp.after.journal_events) = Cardinality(matched)
                  /\ \A item \in DOMAIN comp.state.player_inventory :
                        /\ inv_get(comp.after.player_inventory, item) =
                              comp.state.player_inventory[item]
                                 - (IF gave(item) THEN 1 ELSE 0)
                        /\ inv_get(comp.after.npc_inventory, item) =
                              IF gave(item) THEN 1 ELSE 0
                  /\ DOMAIN comp.after.npc_inventory
                        \subseteq DOMAIN comp.state.player_inventory
                  /\ "gave_artifact" \in comp.flags_after
                        <=> (\E i \in matched : comp.config[i] = GiftTrigger)
                  /\ "entered" \notin comp.flags_after
            /\ (comp.result # NoTriggers /\ comp.after # NoTriggers) =>
                  /\ comp.after.player_inventory = comp.result.player_inv
                  /\ comp.after.npc_inventory = comp.result.npc_inv
                  /\ comp.flags_after = comp.result.flags

\* the gift and the insult both match: +5 and -3 give +2, two journal entries,
\* the coin changes hands and the flag is set
C29_Witness ==
    /\ comp.kind = "triggers"
    /\ comp.config = <<GiftTrigger, EnterTrigger, InsultTrigger>>
    /\ comp.state.user_input = <<"artifact", "and", "potion", "fool">>
    /\ comp.state.relationship = 10
    /\ comp.result # NoTriggers
    /\ comp.after # NoTriggers
    /\ comp.result.relationship_delta = 2
    /\ Len(comp.result.journal_entries) = 2
    /\ comp.after.relationship = 12
    /\ "gold_coin" \in DOMAIN comp.after.npc_inventory
    /\ "gold_coin" \notin DOMAIN comp.after.player_inventory
    /\ comp.flags_after = {"gave_artifact"}

\* C30: applying an item's effect never raises: a heal: effect whose formula
\* is neither a number nor dice yields a heal of 0, and an effect string of
\* any other kind, or none at all, yields the "used successfully." result of
\* type generic with value 0.
C30_EffectNeverRaises ==
    (comp.kind = "effect" /\ comp.result # NoEffect) =>
        LET data    == comp.item_data
            absent  == "effect" \notin DOMAIN data \/ data.effect = <<>>
            is_heal == ~absent /\ data.effect[1] = "heal:"
            formula == IF is_heal THEN Tail(data.effect) ELSE <<>>
            parsed  == /\ formula # <<>>
                       /\ formula[1] \in Digits
                       /\ \/ Len(formula) = 1
                          \/ (Len(formula) >= 3 /\ formula[2] = "d"
                              /\ formula[3] \in Digits)
        IN  /\ "raised" \notin DOMAIN comp.result
            /\ (is_heal /\ ~parsed) =>
                  /\ comp.result.type = "heal"
                  /\ comp.result.value = 0
            /\ ~is_heal =>
                  /\ comp.result.success
                  /\ comp.result.type = "generic"
                  /\ comp.result.value = 0
                  /\ comp.result.message = <<"used", "successfully.">>

\* C31: check_condition answers true for the empty condition and for "True";
\* for flags.<key> == <literal> it answers whether the flag's value equals the
\* literal and for flags.<key> != <literal> whether it differs, an unset flag
\* having no value; every other shape is answered false; the flags are left
\* as they were.
C31_ConditionShapes ==
    (comp.kind = "condition" /\ comp.answer # NoAnswer) =>
        LET c == comp.condition
            comparison ==
                /\ Len(c) = 4
                /\ c[1] = "flags."
                /\ c[2] # ""
                /\ c[3] \in {"==", "!="}
            value == IF c[2] \in DOMAIN comp.flags_before
                     THEN comp.flags_before[c[2]] ELSE PyNone
            same  == py_eq(value, literal_eval(<<c[4]>>))
            expected ==
                IF c = <<>> \/ c = <<"True">> THEN TRUE
                ELSE IF comparison
                THEN IF c[3] = "==" THEN same ELSE ~same
                ELSE FALSE
        IN  /\ comp.answer = IF expected THEN "True" ELSE "False"
            /\ comp.flags = comp.flags_before

\* an unset flag differs from False: flags.mood != False is answered true
\* while met is set
C31_Witness ==
    /\ comp.kind = "condition"
    /\ comp.condition = <<"flags.", "mood", "!=", "False">>
    /\ DOMAIN comp.flags = {"met"}
    /\ comp.answer = "True"

\* C32: however often render_prompt is called and with whatever scores, the
\* relationship kept in the loaded character data is the one loaded from the
\* file, and the rest of the data is untouched; the score reaches only the
\* attributes handed to the template.
C32_LoadedDataKept ==
    comp.kind = "character" =>
        /\ comp.data.relationship = comp.baseline
        /\ comp.data.name = "Shadowheart"
        /\ comp.data.ability_scores = NpcAttributes.ability_scores
        /\ comp.attributes # NoRender =>
              comp.attributes.ability_scores = comp.data.ability_scores

\* two renders, the last with score 85, on a character loaded with 10
C32_Witness ==
    /\ comp.kind = "character"
    /\ comp.renders = 2
    /\ comp.baseline = 10
    /\ comp.attributes # NoRender
    /\ comp.attributes.relationship = 85
    /\ comp.data.relationship = 10

\* C33: the message list given to the dialogue model ends with a user message
\* holding the current input, which is added at most once to the messages of
\* the state; and the node returns two new messages, the input as the human
\* turn and the reply as the assistant turn.
C33_SentEndsWithInput ==
    (comp.kind = "history" /\ comp.sent # NoHistory) =>
        LET sent_list == comp.sent
            n == Len(sent_list)
        IN  /\ n >= 1
            /\ sent_list[n].role = "user"
            /\ sent_list[n].content = comp.state.user_input
            /\ n <= Len(comp.state.messages) + 1
            /\ Len(comp.out) = 2
            /\ comp.out[1] = [type |-> "human", content |-> comp.state.user_input]
            /\ comp.out[2].type = "ai"

\* C34: the journal_events a turn returns are the events produced in that
\* turn and no others, so that the journal holds every event once.
C34_EventsOfThisTurnOnly ==
    comp.kind = "checkpoint" =>
        /\ comp.result = comp.produced
        /\ \A i \in DOMAIN comp.journal, j \in DOMAIN comp.journal :
              comp.journal[i].text = comp.journal[j].text => i = j
        /\ \A i \in DOMAIN comp.journal :
              comp.journal[i].text.made = comp.journal[i].turn + 1

\* C35: after a restart both inventories are exactly the saved ones, an
\* inventory saved empty included: the seed items are not back.
C35_InventoriesRestored ==
    (comp.kind = "restart" /\ comp.phase = "restarted") =>
        /\ comp.player = comp.saved.inventory_player
        /\ comp.npc = comp.saved.inventory_npc

\* C36: the first game run that starts after the admin tool deleted the save
\* file starts from the defaults, whatever a game process running at the time
\* of the deletion does.
C36_FreshStartAfterDelete ==
    comp.kind = "admin" => comp.started # "document"

\* C37: after a remove or an add in the admin tool the inventory list in the
\* YAML file is the list the tool shows.
C37_InventoryChangeSavedAtOnce ==
    (comp.kind = "admin" /\ comp.last_op \in {"remove", "add"}) =>
        comp.yaml = comp.shown

\* C38: a free-text turn that starts in SILENT with positive duration calls
\* neither the intent analysis nor the dialogue model and leaves score and
\* history alone; it lowers the duration by one and the state is NORMAL when
\* the duration reaches zero. Of the free-text turns after a critical failure
\* exactly the first two are suppressed.
C38_SilentSuppressesTwoTurns ==
    comp.kind = "loop" =>
        /\ (comp.before # NoTurn /\ comp.before.npc_state.status = "SILENT"
               /\ comp.before.npc_state.duration > 0) =>
              /\ comp.last.mode = "silent"
              /\ comp.last.intent_calls = 0
              /\ comp.last.dialogue_calls = 0
              /\ ~comp.last.rolled
              /\ comp.score = comp.before.score
              /\ comp.history = comp.before.history
              /\ comp.npc_state.duration = comp.before.npc_state.duration - 1
              /\ comp.npc_state.status =
                    (IF comp.npc_state.duration = 0 THEN "NORMAL" ELSE "SILENT")
        /\ comp.origin = "SILENT" => comp.covered = Min2(comp.after, 2)

\* a critical failure, two suppressed turns, and a third that is answered
C38_Witness ==
    /\ comp.kind = "loop"
    /\ comp.origin = "SILENT"
    /\ comp.after = 3
    /\ comp.covered = 2
    /\ comp.last.mode = "normal"
    /\ comp.last.dialogue_calls = 1
    /\ comp.inputs = 4

\* C39: a free-text turn that starts in VULNERABLE with positive duration
\* lowers the duration by one; when its action needs a check the check is a
\* critical success without dice, the score right after it is the old score
\* plus one capped at 100, and no new state is set. Of the free-text turns
\* after a critical success exactly the first three run under the state, and
\* the state is NORMAL after the third.
C39_VulnerableAutoSuccess ==
    comp.kind = "loop" =>
        /\ (comp.before # NoTurn /\ comp.before.npc_state.status = "VULNERABLE"
               /\ comp.before.npc_state.duration > 0) =>
              /\ comp.last.mode = "vulnerable"
              /\ ~comp.last.rolled
              /\ comp.last.set = "none"
              /\ comp.npc_state.duration = comp.before.npc_state.duration - 1
              /\ comp.npc_state.status =
                    (IF comp.npc_state.duration = 0 THEN "NORMAL" ELSE "VULNERABLE")
              /\ comp.last.check \in {"none", "CRITICAL_SUCCESS_AUTO"}
              /\ comp.last.check = "CRITICAL_SUCCESS_AUTO" =>
                    comp.last.checked_score = Min2(comp.before.score + 1, 100)
              /\ comp.last.check = "none" =>
                    comp.last.checked_score = comp.before.score
        /\ comp.origin = "VULNERABLE" =>
              /\ comp.covered = Min2(comp.after, 3)
              /\ comp.after >= 3 => comp.npc_state.status # "VULNERABLE"

\* a critical success, then three turns under the state, the third an
\* automatic success at score 100, and the state back to NORMAL
C39_Witness ==
    /\ comp.kind = "loop"
    /\ comp.origin = "VULNERABLE"
    /\ comp.inputs = 4
    /\ comp.after = 3
    /\ comp.covered = 3
    /\ comp.last.check = "CRITICAL_SUCCESS_AUTO"
    /\ comp.before.score = 100
    /\ comp.last.checked_score = 100
    /\ comp.npc_state = [status |-> "NORMAL", duration |-> 0]

GraphOrder == <<"input_processing", "dm_analysis", "mechanics_processing", "generation">>

\* the position of node in the fixed order
GraphRank(node) == CHOOSE i \in DOMAIN GraphOrder : GraphOrder[i] = node

C40_OrderedOnce ==
    comp.kind = "graph" =>
        /\ Len(comp.ran) <= 4
        /\ \A i \in DOMAIN comp.ran : comp.ran[i] \in Nodes(GraphOrder)
        /\ \A i \in DOMAIN comp.ran, j \in DOMAIN comp.ran :
              i < j => GraphRank(comp.ran[i]) < GraphRank(comp.ran[j])

====
